------------------------------ MODULE Spec2Model ------------------------------
(***************************************************************************)
(* A model of the weather assistant client (src/Weather.py, the English    *)
(* variant of src/Weather_zh.py) together with the tool server it talks to *)
(* (src/Ernie_Server.py): the dialogue memory, the intent router, the tool *)
(* invoker, the reply composers and the per-turn driver process_query.     *)
(*                                                                         *)
(* Text is modelled character by character: a Python str is a sequence of  *)
(* one-character strings, so that substring tests, replace, strip and the  *)
(* regular expressions of the source are computed, not assumed.  A         *)
(* printable ASCII character is itself, tab, line feed and carriage return *)
(* are "\t", "\n" and "\r", and every other code point is one element      *)
(* written "U+XXXX" with its number in hexadecimal: "U+00A0", "U+1F30D"    *)
(* (the grave accent too, "U+0060", which a string here cannot hold).      *)
(***************************************************************************)
EXTENDS Integers, Sequences, FiniteSets, TLC

VARIABLES
    dialogue_memory,  \* MCPClient.dialogue_memory: history, the stored turns, oldest first,
                      \* and recorded, every turn given to add_message since construction
                      \* or clear (kept for the statements about eviction, read by no code)
    connected,        \* connect_to_server has completed (initialize, list_tools)
    tools_available,  \* MCPClient.tools_available
    pc,               \* where the operation in progress stands, Idle between operations
    query,            \* the utterance of the turn in progress (or of the last turn)
    decision,         \* the outcome of the classification call of the turn, None if none
    route,            \* what should_call_tool returned in the turn, None before it returns
    weather_data,     \* what call_weather_tool returned in the turn, None if not called
    tool_result,      \* what session.call_tool gave in the turn, None if not called
    provider,         \* what the weather provider did with the request of fetch_weather
                      \* in the turn, None if not asked
    served,           \* what query_weather of the server returned or raised in the turn,
                      \* None if not called
    context,          \* what get_recent_context returned last, None if not called
    translated,       \* what translate_city returned in the turn, None if not called
    reply,            \* what process_query returned in the turn, None before it returns
    calls,            \* the external calls of the turn, in order
    events,           \* the failures of the turn, in order, each with the function that met it
    turns             \* number of process_query calls started

vars == <<dialogue_memory, connected, tools_available, pc, query, decision, route,
          weather_data, tool_result, provider, served,
          context, translated, reply, calls, events, turns>>

-----------------------------------------------------------------------------
(* Python str operations on character sequences. *)

\* The white space of str.strip() and of \s in the regular expressions (the
\* characters str.isspace() accepts)
Whitespace ==
    {" ", "\t", "\n", "\r", "U+000B", "U+000C", "U+001C", "U+001D", "U+001E", "U+001F",
     "U+0085", "U+00A0", "U+1680", "U+2000", "U+2001", "U+2002", "U+2003", "U+2004", "U+2005",
     "U+2006", "U+2007", "U+2008", "U+2009", "U+200A", "U+2028", "U+2029", "U+202F", "U+205F",
     "U+3000"}

\* s[i:].startswith(sub), i counted from 1
StartsAt(s, i, sub) ==
    /\ i >= 1
    /\ i + Len(sub) - 1 <= Len(s)
    /\ \A k \in 1..Len(sub) : s[i + k - 1] = sub[k]

\* min(S) and max(S) of a set of integers that is not empty
Min(S) == CHOOSE i \in S : \A j \in S : i <= j

Max(S) == CHOOSE i \in S : \A j \in S : i >= j

\* str.find(sub, from), counted from 1; 0 when sub does not occur
Find(s, sub, from) ==
    LET first(hits) == IF hits = {} THEN 0 ELSE Min(hits)
    IN  first({i \in from..(Len(s) - Len(sub) + 1) : StartsAt(s, i, sub)})

\* sub in s
Contains(s, sub) == Find(s, sub, 1) # 0

\* str.startswith(sub)
StartsWith(s, sub) == StartsAt(s, 1, sub)

\* str.replace(sub, ""): every occurrence, left to right, without overlap
RECURSIVE Remove(_, _)
Remove(s, sub) ==
    LET cut(i) == IF i = 0 \/ Len(sub) = 0 THEN s
                  ELSE SubSeq(s, 1, i - 1) \o Remove(SubSeq(s, i + Len(sub), Len(s)), sub)
    IN  cut(Find(s, sub, 1))

\* str.strip()
Strip(s) ==
    LET trim(keep) == IF keep = {} THEN << >> ELSE SubSeq(s, Min(keep), Max(keep))
    IN  trim({i \in 1..Len(s) : s[i] \notin Whitespace})

\* sep.join(parts)
RECURSIVE Join(_, _)
Join(sep, parts) ==
    IF Len(parts) = 0 THEN << >>
    ELSE IF Len(parts) = 1 THEN parts[1]
    ELSE parts[1] \o sep \o Join(sep, Tail(parts))

-----------------------------------------------------------------------------
(* The case of characters, as str.lower and str.capitalize map it. *)

\* The code points written one after the other in hex, each with width
\* hexadecimal digits, as characters: CodePoints("00C000E9", 4) is
\* <<"U+00C0", "U+00E9">>
CodePoints(hex, width) ==
    [k \in 1..(Len(hex) \div width) |->
        "U+" \o SubSeq(hex, width * (k - 1) + 1, width * k)]

\* The elements of a sequence
Range(s) == {s[k] : k \in 1..Len(s)}

\* The function that maps cs[1] to the text <<cs[2]>>, cs[3] to <<cs[4]>> and
\* so on, for the pairs lo to hi of cs
RECURSIVE Pairs(_, _, _)
Pairs(cs, lo, hi) ==
    IF lo > hi THEN << >>
    ELSE IF lo = hi THEN cs[2 * lo - 1] :> <<cs[2 * lo]>>
    ELSE Pairs(cs, lo, (lo + hi) \div 2) @@ Pairs(cs, (lo + hi) \div 2 + 1, hi)

PairTable(cs) == Pairs(cs, 1, Len(cs) \div 2)

\* str.lower, one character at a time: the characters it changes, each with
\* what it writes for it (a character outside the table is kept).  The pairs of
\* code points outside ASCII are written in hex, the character and then what it
\* becomes.
LowerTable ==
    ("A" :> <<"a">> @@ "B" :> <<"b">> @@ "C" :> <<"c">> @@ "D" :> <<"d">> @@ "E" :> <<"e">>) @@
    ("F" :> <<"f">> @@ "G" :> <<"g">> @@ "H" :> <<"h">> @@ "I" :> <<"i">> @@ "J" :> <<"j">>) @@
    ("K" :> <<"k">> @@ "L" :> <<"l">> @@ "M" :> <<"m">> @@ "N" :> <<"n">> @@ "O" :> <<"o">>) @@
    ("P" :> <<"p">> @@ "Q" :> <<"q">> @@ "R" :> <<"r">> @@ "S" :> <<"s">> @@ "T" :> <<"t">>) @@
    ("U" :> <<"u">> @@ "V" :> <<"v">> @@ "W" :> <<"w">> @@ "X" :> <<"x">> @@ "Y" :> <<"y">>) @@
    ("Z" :> <<"z">> @@ "U+0130" :> <<"i", "U+0307">> @@ "U+212A" :> <<"k">>) @@
    PairTable(CodePoints(
        "00C000E000C100E100C200E200C300E300C400E400C500E500C600E600C700E700C800E800C900E900CA00EA" \o
        "00CB00EB00CC00EC00CD00ED00CE00EE00CF00EF00D000F000D100F100D200F200D300F300D400F400D500F5" \o
        "00D600F600D800F800D900F900DA00FA00DB00FB00DC00FC00DD00FD00DE00FE010001010102010301040105" \o
        "0106010701080109010A010B010C010D010E010F0110011101120113011401150116011701180119011A011B" \o
        "011C011D011E011F0120012101220123012401250126012701280129012A012B012C012D012E012F01320133" \o
        "01340135013601370139013A013B013C013D013E013F014001410142014301440145014601470148014A014B" \o
        "014C014D014E014F0150015101520153015401550156015701580159015A015B015C015D015E015F01600161" \o
        "01620163016401650166016701680169016A016B016C016D016E016F01700171017201730174017501760177" \o
        "017800FF0179017A017B017C017D017E018102530182018301840185018602540187018801890256018A0257" \o
        "018B018C018E01DD018F02590190025B019101920193026001940263019602690197026801980199019C026F" \o
        "019D0272019F027501A001A101A201A301A401A501A6028001A701A801A9028301AC01AD01AE028801AF01B0" \o
        "01B1028A01B2028B01B301B401B501B601B7029201B801B901BC01BD01C401C601C501C601C701C901C801C9" \o
        "01CA01CC01CB01CC01CD01CE01CF01D001D101D201D301D401D501D601D701D801D901DA01DB01DC01DE01DF" \o
        "01E001E101E201E301E401E501E601E701E801E901EA01EB01EC01ED01EE01EF01F101F301F201F301F401F5" \o
        "01F6019501F701BF01F801F901FA01FB01FC01FD01FE01FF0200020102020203020402050206020702080209" \o
        "020A020B020C020D020E020F0210021102120213021402150216021702180219021A021B021C021D021E021F" \o
        "0220019E02220223022402250226022702280229022A022B022C022D022E022F0230023102320233023A2C65" \o
        "023B023C023D019A023E2C660241024202430180024402890245028C0246024702480249024A024B024C024D" \o
        "024E024F037003710372037303760377037F03F3038603AC038803AD038903AE038A03AF038C03CC038E03CD" \o
        "038F03CE039103B1039203B2039303B3039403B4039503B5039603B6039703B7039803B8039903B9039A03BA" \o
        "039B03BB039C03BC039D03BD039E03BE039F03BF03A003C003A103C103A303C303A403C403A503C503A603C6" \o
        "03A703C703A803C803A903C903AA03CA03AB03CB03CF03D703D803D903DA03DB03DC03DD03DE03DF03E003E1" \o
        "03E203E303E403E503E603E703E803E903EA03EB03EC03ED03EE03EF03F403B803F703F803F903F203FA03FB" \o
        "03FD037B03FE037C03FF037D0400045004010451040204520403045304040454040504550406045604070457" \o
        "0408045804090459040A045A040B045B040C045C040D045D040E045E040F045F041004300411043104120432" \o
        "04130433041404340415043504160436041704370418043804190439041A043A041B043B041C043C041D043D" \o
        "041E043E041F043F042004400421044104220442042304430424044404250445042604460427044704280448" \o
        "04290449042A044A042B044B042C044C042D044D042E044E042F044F04600461046204630464046504660467" \o
        "04680469046A046B046C046D046E046F0470047104720473047404750476047704780479047A047B047C047D" \o
        "047E047F04800481048A048B048C048D048E048F0490049104920493049404950496049704980499049A049B" \o
        "049C049D049E049F04A004A104A204A304A404A504A604A704A804A904AA04AB04AC04AD04AE04AF04B004B1" \o
        "04B204B304B404B504B604B704B804B904BA04BB04BC04BD04BE04BF04C004CF04C104C204C304C404C504C6" \o
        "04C704C804C904CA04CB04CC04CD04CE04D004D104D204D304D404D504D604D704D804D904DA04DB04DC04DD" \o
        "04DE04DF04E004E104E204E304E404E504E604E704E804E904EA04EB04EC04ED04EE04EF04F004F104F204F3" \o
        "04F404F504F604F704F804F904FA04FB04FC04FD04FE04FF0500050105020503050405050506050705080509" \o
        "050A050B050C050D050E050F0510051105120513051405150516051705180519051A051B051C051D051E051F" \o
        "0520052105220523052405250526052705280529052A052B052C052D052E052F053105610532056205330563" \o
        "053405640535056505360566053705670538056805390569053A056A053B056B053C056C053D056D053E056E" \o
        "053F056F05400570054105710542057205430573054405740545057505460576054705770548057805490579" \o
        "054A057A054B057B054C057C054D057D054E057E054F057F0550058005510581055205820553058305540584" \o
        "055505850556058610A02D0010A12D0110A22D0210A32D0310A42D0410A52D0510A62D0610A72D0710A82D08" \o
        "10A92D0910AA2D0A10AB2D0B10AC2D0C10AD2D0D10AE2D0E10AF2D0F10B02D1010B12D1110B22D1210B32D13" \o
        "10B42D1410B52D1510B62D1610B72D1710B82D1810B92D1910BA2D1A10BB2D1B10BC2D1C10BD2D1D10BE2D1E" \o
        "10BF2D1F10C02D2010C12D2110C22D2210C32D2310C42D2410C52D2510C72D2710CD2D2D13A0AB7013A1AB71" \o
        "13A2AB7213A3AB7313A4AB7413A5AB7513A6AB7613A7AB7713A8AB7813A9AB7913AAAB7A13ABAB7B13ACAB7C" \o
        "13ADAB7D13AEAB7E13AFAB7F13B0AB8013B1AB8113B2AB8213B3AB8313B4AB8413B5AB8513B6AB8613B7AB87" \o
        "13B8AB8813B9AB8913BAAB8A13BBAB8B13BCAB8C13BDAB8D13BEAB8E13BFAB8F13C0AB9013C1AB9113C2AB92" \o
        "13C3AB9313C4AB9413C5AB9513C6AB9613C7AB9713C8AB9813C9AB9913CAAB9A13CBAB9B13CCAB9C13CDAB9D" \o
        "13CEAB9E13CFAB9F13D0ABA013D1ABA113D2ABA213D3ABA313D4ABA413D5ABA513D6ABA613D7ABA713D8ABA8" \o
        "13D9ABA913DAABAA13DBABAB13DCABAC13DDABAD13DEABAE13DFABAF13E0ABB013E1ABB113E2ABB213E3ABB3" \o
        "13E4ABB413E5ABB513E6ABB613E7ABB713E8ABB813E9ABB913EAABBA13EBABBB13ECABBC13EDABBD13EEABBE" \o
        "13EFABBF13F013F813F113F913F213FA13F313FB13F413FC13F513FD1C9010D01C9110D11C9210D21C9310D3" \o
        "1C9410D41C9510D51C9610D61C9710D71C9810D81C9910D91C9A10DA1C9B10DB1C9C10DC1C9D10DD1C9E10DE" \o
        "1C9F10DF1CA010E01CA110E11CA210E21CA310E31CA410E41CA510E51CA610E61CA710E71CA810E81CA910E9" \o
        "1CAA10EA1CAB10EB1CAC10EC1CAD10ED1CAE10EE1CAF10EF1CB010F01CB110F11CB210F21CB310F31CB410F4" \o
        "1CB510F51CB610F61CB710F71CB810F81CB910F91CBA10FA1CBD10FD1CBE10FE1CBF10FF1E001E011E021E03" \o
        "1E041E051E061E071E081E091E0A1E0B1E0C1E0D1E0E1E0F1E101E111E121E131E141E151E161E171E181E19" \o
        "1E1A1E1B1E1C1E1D1E1E1E1F1E201E211E221E231E241E251E261E271E281E291E2A1E2B1E2C1E2D1E2E1E2F" \o
        "1E301E311E321E331E341E351E361E371E381E391E3A1E3B1E3C1E3D1E3E1E3F1E401E411E421E431E441E45" \o
        "1E461E471E481E491E4A1E4B1E4C1E4D1E4E1E4F1E501E511E521E531E541E551E561E571E581E591E5A1E5B" \o
        "1E5C1E5D1E5E1E5F1E601E611E621E631E641E651E661E671E681E691E6A1E6B1E6C1E6D1E6E1E6F1E701E71" \o
        "1E721E731E741E751E761E771E781E791E7A1E7B1E7C1E7D1E7E1E7F1E801E811E821E831E841E851E861E87" \o
        "1E881E891E8A1E8B1E8C1E8D1E8E1E8F1E901E911E921E931E941E951E9E00DF1EA01EA11EA21EA31EA41EA5" \o
        "1EA61EA71EA81EA91EAA1EAB1EAC1EAD1EAE1EAF1EB01EB11EB21EB31EB41EB51EB61EB71EB81EB91EBA1EBB" \o
        "1EBC1EBD1EBE1EBF1EC01EC11EC21EC31EC41EC51EC61EC71EC81EC91ECA1ECB1ECC1ECD1ECE1ECF1ED01ED1" \o
        "1ED21ED31ED41ED51ED61ED71ED81ED91EDA1EDB1EDC1EDD1EDE1EDF1EE01EE11EE21EE31EE41EE51EE61EE7" \o
        "1EE81EE91EEA1EEB1EEC1EED1EEE1EEF1EF01EF11EF21EF31EF41EF51EF61EF71EF81EF91EFA1EFB1EFC1EFD" \o
        "1EFE1EFF1F081F001F091F011F0A1F021F0B1F031F0C1F041F0D1F051F0E1F061F0F1F071F181F101F191F11" \o
        "1F1A1F121F1B1F131F1C1F141F1D1F151F281F201F291F211F2A1F221F2B1F231F2C1F241F2D1F251F2E1F26" \o
        "1F2F1F271F381F301F391F311F3A1F321F3B1F331F3C1F341F3D1F351F3E1F361F3F1F371F481F401F491F41" \o
        "1F4A1F421F4B1F431F4C1F441F4D1F451F591F511F5B1F531F5D1F551F5F1F571F681F601F691F611F6A1F62" \o
        "1F6B1F631F6C1F641F6D1F651F6E1F661F6F1F671F881F801F891F811F8A1F821F8B1F831F8C1F841F8D1F85" \o
        "1F8E1F861F8F1F871F981F901F991F911F9A1F921F9B1F931F9C1F941F9D1F951F9E1F961F9F1F971FA81FA0" \o
        "1FA91FA11FAA1FA21FAB1FA31FAC1FA41FAD1FA51FAE1FA61FAF1FA71FB81FB01FB91FB11FBA1F701FBB1F71" \o
        "1FBC1FB31FC81F721FC91F731FCA1F741FCB1F751FCC1FC31FD81FD01FD91FD11FDA1F761FDB1F771FE81FE0" \o
        "1FE91FE11FEA1F7A1FEB1F7B1FEC1FE51FF81F781FF91F791FFA1F7C1FFB1F7D1FFC1FF3212603C9212B00E5" \o
        "2132214E21602170216121712162217221632173216421742165217521662176216721772168217821692179" \o
        "216A217A216B217B216C217C216D217D216E217E216F217F2183218424B624D024B724D124B824D224B924D3" \o
        "24BA24D424BB24D524BC24D624BD24D724BE24D824BF24D924C024DA24C124DB24C224DC24C324DD24C424DE" \o
        "24C524DF24C624E024C724E124C824E224C924E324CA24E424CB24E524CC24E624CD24E724CE24E824CF24E9" \o
        "2C002C302C012C312C022C322C032C332C042C342C052C352C062C362C072C372C082C382C092C392C0A2C3A" \o
        "2C0B2C3B2C0C2C3C2C0D2C3D2C0E2C3E2C0F2C3F2C102C402C112C412C122C422C132C432C142C442C152C45" \o
        "2C162C462C172C472C182C482C192C492C1A2C4A2C1B2C4B2C1C2C4C2C1D2C4D2C1E2C4E2C1F2C4F2C202C50" \o
        "2C212C512C222C522C232C532C242C542C252C552C262C562C272C572C282C582C292C592C2A2C5A2C2B2C5B" \o
        "2C2C2C5C2C2D2C5D2C2E2C5E2C2F2C5F2C602C612C62026B2C631D7D2C64027D2C672C682C692C6A2C6B2C6C" \o
        "2C6D02512C6E02712C6F02502C7002522C722C732C752C762C7E023F2C7F02402C802C812C822C832C842C85" \o
        "2C862C872C882C892C8A2C8B2C8C2C8D2C8E2C8F2C902C912C922C932C942C952C962C972C982C992C9A2C9B" \o
        "2C9C2C9D2C9E2C9F2CA02CA12CA22CA32CA42CA52CA62CA72CA82CA92CAA2CAB2CAC2CAD2CAE2CAF2CB02CB1" \o
        "2CB22CB32CB42CB52CB62CB72CB82CB92CBA2CBB2CBC2CBD2CBE2CBF2CC02CC12CC22CC32CC42CC52CC62CC7" \o
        "2CC82CC92CCA2CCB2CCC2CCD2CCE2CCF2CD02CD12CD22CD32CD42CD52CD62CD72CD82CD92CDA2CDB2CDC2CDD" \o
        "2CDE2CDF2CE02CE12CE22CE32CEB2CEC2CED2CEE2CF22CF3A640A641A642A643A644A645A646A647A648A649" \o
        "A64AA64BA64CA64DA64EA64FA650A651A652A653A654A655A656A657A658A659A65AA65BA65CA65DA65EA65F" \o
        "A660A661A662A663A664A665A666A667A668A669A66AA66BA66CA66DA680A681A682A683A684A685A686A687" \o
        "A688A689A68AA68BA68CA68DA68EA68FA690A691A692A693A694A695A696A697A698A699A69AA69BA722A723" \o
        "A724A725A726A727A728A729A72AA72BA72CA72DA72EA72FA732A733A734A735A736A737A738A739A73AA73B" \o
        "A73CA73DA73EA73FA740A741A742A743A744A745A746A747A748A749A74AA74BA74CA74DA74EA74FA750A751" \o
        "A752A753A754A755A756A757A758A759A75AA75BA75CA75DA75EA75FA760A761A762A763A764A765A766A767" \o
        "A768A769A76AA76BA76CA76DA76EA76FA779A77AA77BA77CA77D1D79A77EA77FA780A781A782A783A784A785" \o
        "A786A787A78BA78CA78D0265A790A791A792A793A796A797A798A799A79AA79BA79CA79DA79EA79FA7A0A7A1" \o
        "A7A2A7A3A7A4A7A5A7A6A7A7A7A8A7A9A7AA0266A7AB025CA7AC0261A7AD026CA7AE026AA7B0029EA7B10287" \o
        "A7B2029DA7B3AB53A7B4A7B5A7B6A7B7A7B8A7B9A7BAA7BBA7BCA7BDA7BEA7BFA7C0A7C1A7C2A7C3A7C4A794" \o
        "A7C50282A7C61D8EA7C7A7C8A7C9A7CAA7D0A7D1A7D6A7D7A7D8A7D9A7F5A7F6FF21FF41FF22FF42FF23FF43" \o
        "FF24FF44FF25FF45FF26FF46FF27FF47FF28FF48FF29FF49FF2AFF4AFF2BFF4BFF2CFF4CFF2DFF4DFF2EFF4E" \o
        "FF2FFF4FFF30FF50FF31FF51FF32FF52FF33FF53FF34FF54FF35FF55FF36FF56FF37FF57FF38FF58FF39FF59" \o
        "FF3AFF5A",
        4)) @@
    PairTable(CodePoints(
        "10400104281040110429104021042A104031042B104041042C104051042D104061042E104071042F10408104" \o
        "3010409104311040A104321040B104331040C104341040D104351040E104361040F104371041010438104111" \o
        "0439104121043A104131043B104141043C104151043D104161043E104171043F104181044010419104411041" \o
        "A104421041B104431041C104441041D104451041E104461041F1044710420104481042110449104221044A10" \o
        "4231044B104241044C104251044D104261044E104271044F104B0104D8104B1104D9104B2104DA104B3104DB" \o
        "104B4104DC104B5104DD104B6104DE104B7104DF104B8104E0104B9104E1104BA104E2104BB104E3104BC104" \o
        "E4104BD104E5104BE104E6104BF104E7104C0104E8104C1104E9104C2104EA104C3104EB104C4104EC104C51" \o
        "04ED104C6104EE104C7104EF104C8104F0104C9104F1104CA104F2104CB104F3104CC104F4104CD104F5104C" \o
        "E104F6104CF104F7104D0104F8104D1104F9104D2104FA104D3104FB10570105971057110598105721059910" \o
        "5731059A105741059B105751059C105761059D105771059E105781059F10579105A01057A105A11057C105A3" \o
        "1057D105A41057E105A51057F105A610580105A710581105A810582105A910583105AA10584105AB10585105" \o
        "AC10586105AD10587105AE10588105AF10589105B01058A105B11058C105B31058D105B41058E105B51058F1" \o
        "05B610590105B710591105B810592105B910594105BB10595105BC10C8010CC010C8110CC110C8210CC210C8" \o
        "310CC310C8410CC410C8510CC510C8610CC610C8710CC710C8810CC810C8910CC910C8A10CCA10C8B10CCB10" \o
        "C8C10CCC10C8D10CCD10C8E10CCE10C8F10CCF10C9010CD010C9110CD110C9210CD210C9310CD310C9410CD4" \o
        "10C9510CD510C9610CD610C9710CD710C9810CD810C9910CD910C9A10CDA10C9B10CDB10C9C10CDC10C9D10C" \o
        "DD10C9E10CDE10C9F10CDF10CA010CE010CA110CE110CA210CE210CA310CE310CA410CE410CA510CE510CA61" \o
        "0CE610CA710CE710CA810CE810CA910CE910CAA10CEA10CAB10CEB10CAC10CEC10CAD10CED10CAE10CEE10CA" \o
        "F10CEF10CB010CF010CB110CF110CB210CF2118A0118C0118A1118C1118A2118C2118A3118C3118A4118C411" \o
        "8A5118C5118A6118C6118A7118C7118A8118C8118A9118C9118AA118CA118AB118CB118AC118CC118AD118CD" \o
        "118AE118CE118AF118CF118B0118D0118B1118D1118B2118D2118B3118D3118B4118D4118B5118D5118B6118" \o
        "D6118B7118D7118B8118D8118B9118D9118BA118DA118BB118DB118BC118DC118BD118DD118BE118DE118BF1" \o
        "18DF16E4016E6016E4116E6116E4216E6216E4316E6316E4416E6416E4516E6516E4616E6616E4716E6716E4" \o
        "816E6816E4916E6916E4A16E6A16E4B16E6B16E4C16E6C16E4D16E6D16E4E16E6E16E4F16E6F16E5016E7016" \o
        "E5116E7116E5216E7216E5316E7316E5416E7416E5516E7516E5616E7616E5716E7716E5816E7816E5916E79" \o
        "16E5A16E7A16E5B16E7B16E5C16E7C16E5D16E7D16E5E16E7E16E5F16E7F1E9001E9221E9011E9231E9021E9" \o
        "241E9031E9251E9041E9261E9051E9271E9061E9281E9071E9291E9081E92A1E9091E92B1E90A1E92C1E90B1" \o
        "E92D1E90C1E92E1E90D1E92F1E90E1E9301E90F1E9311E9101E9321E9111E9331E9121E9341E9131E9351E91" \o
        "41E9361E9151E9371E9161E9381E9171E9391E9181E93A1E9191E93B1E91A1E93C1E91B1E93D1E91C1E93E1E" \o
        "91D1E93F1E91E1E9401E91F1E9411E9201E9421E9211E943",
        5))

\* str.capitalize on the first character: the characters it changes, each with
\* what it writes for it (the title case, which may be two or three characters)
TitleTable ==
    ("a" :> <<"A">> @@ "b" :> <<"B">> @@ "c" :> <<"C">> @@ "d" :> <<"D">> @@ "e" :> <<"E">>) @@
    ("f" :> <<"F">> @@ "g" :> <<"G">> @@ "h" :> <<"H">> @@ "i" :> <<"I">> @@ "j" :> <<"J">>) @@
    ("k" :> <<"K">> @@ "l" :> <<"L">> @@ "m" :> <<"M">> @@ "n" :> <<"N">> @@ "o" :> <<"O">>) @@
    ("p" :> <<"P">> @@ "q" :> <<"Q">> @@ "r" :> <<"R">> @@ "s" :> <<"S">> @@ "t" :> <<"T">>) @@
    ("u" :> <<"U">> @@ "v" :> <<"V">> @@ "w" :> <<"W">> @@ "x" :> <<"X">> @@ "y" :> <<"Y">>) @@
    ("z" :> <<"Z">> @@ "U+00DF" :> <<"S", "s">> @@ "U+0131" :> <<"I">>) @@
    ("U+0149" :> <<"U+02BC", "N">> @@ "U+017F" :> <<"S">> @@ "U+01F0" :> <<"J", "U+030C">>) @@
    ("U+0390" :> <<"U+0399", "U+0308", "U+0301">>) @@
    ("U+03B0" :> <<"U+03A5", "U+0308", "U+0301">> @@ "U+0587" :> <<"U+0535", "U+0582">>) @@
    ("U+1E96" :> <<"H", "U+0331">> @@ "U+1E97" :> <<"T", "U+0308">>) @@
    ("U+1E98" :> <<"W", "U+030A">> @@ "U+1E99" :> <<"Y", "U+030A">>) @@
    ("U+1E9A" :> <<"A", "U+02BE">> @@ "U+1F50" :> <<"U+03A5", "U+0313">>) @@
    ("U+1F52" :> <<"U+03A5", "U+0313", "U+0300">>) @@
    ("U+1F54" :> <<"U+03A5", "U+0313", "U+0301">>) @@
    ("U+1F56" :> <<"U+03A5", "U+0313", "U+0342">> @@ "U+1FB2" :> <<"U+1FBA", "U+0345">>) @@
    ("U+1FB4" :> <<"U+0386", "U+0345">> @@ "U+1FB6" :> <<"U+0391", "U+0342">>) @@
    ("U+1FB7" :> <<"U+0391", "U+0342", "U+0345">> @@ "U+1FC2" :> <<"U+1FCA", "U+0345">>) @@
    ("U+1FC4" :> <<"U+0389", "U+0345">> @@ "U+1FC6" :> <<"U+0397", "U+0342">>) @@
    ("U+1FC7" :> <<"U+0397", "U+0342", "U+0345">>) @@
    ("U+1FD2" :> <<"U+0399", "U+0308", "U+0300">>) @@
    ("U+1FD3" :> <<"U+0399", "U+0308", "U+0301">> @@ "U+1FD6" :> <<"U+0399", "U+0342">>) @@
    ("U+1FD7" :> <<"U+0399", "U+0308", "U+0342">>) @@
    ("U+1FE2" :> <<"U+03A5", "U+0308", "U+0300">>) @@
    ("U+1FE3" :> <<"U+03A5", "U+0308", "U+0301">> @@ "U+1FE4" :> <<"U+03A1", "U+0313">>) @@
    ("U+1FE6" :> <<"U+03A5", "U+0342">> @@ "U+1FE7" :> <<"U+03A5", "U+0308", "U+0342">>) @@
    ("U+1FF2" :> <<"U+1FFA", "U+0345">> @@ "U+1FF4" :> <<"U+038F", "U+0345">>) @@
    ("U+1FF6" :> <<"U+03A9", "U+0342">> @@ "U+1FF7" :> <<"U+03A9", "U+0342", "U+0345">>) @@
    ("U+FB00" :> <<"F", "f">> @@ "U+FB01" :> <<"F", "i">> @@ "U+FB02" :> <<"F", "l">>) @@
    ("U+FB03" :> <<"F", "f", "i">> @@ "U+FB04" :> <<"F", "f", "l">> @@ "U+FB05" :> <<"S", "t">>) @@
    ("U+FB06" :> <<"S", "t">> @@ "U+FB13" :> <<"U+0544", "U+0576">>) @@
    ("U+FB14" :> <<"U+0544", "U+0565">> @@ "U+FB15" :> <<"U+0544", "U+056B">>) @@
    ("U+FB16" :> <<"U+054E", "U+0576">> @@ "U+FB17" :> <<"U+0544", "U+056D">>) @@
    PairTable(CodePoints(
        "00B5039C00E000C000E100C100E200C200E300C300E400C400E500C500E600C600E700C700E800C800E900C9" \o
        "00EA00CA00EB00CB00EC00CC00ED00CD00EE00CE00EF00CF00F000D000F100D100F200D200F300D300F400D4" \o
        "00F500D500F600D600F800D800F900D900FA00DA00FB00DB00FC00DC00FD00DD00FE00DE00FF017801010100" \o
        "01030102010501040107010601090108010B010A010D010C010F010E01110110011301120115011401170116" \o
        "01190118011B011A011D011C011F011E0121012001230122012501240127012601290128012B012A012D012C" \o
        "012F012E013301320135013401370136013A0139013C013B013E013D0140013F014201410144014301460145" \o
        "01480147014B014A014D014C014F014E0151015001530152015501540157015601590158015B015A015D015C" \o
        "015F015E0161016001630162016501640167016601690168016B016A016D016C016F016E0171017001730172" \o
        "0175017401770176017A0179017C017B017E017D01800243018301820185018401880187018C018B01920191" \o
        "019501F601990198019A023D019E022001A101A001A301A201A501A401A801A701AD01AC01B001AF01B401B3" \o
        "01B601B501B901B801BD01BC01BF01F701C401C501C601C501C701C801C901C801CA01CB01CC01CB01CE01CD" \o
        "01D001CF01D201D101D401D301D601D501D801D701DA01D901DC01DB01DD018E01DF01DE01E101E001E301E2" \o
        "01E501E401E701E601E901E801EB01EA01ED01EC01EF01EE01F101F201F301F201F501F401F901F801FB01FA" \o
        "01FD01FC01FF01FE0201020002030202020502040207020602090208020B020A020D020C020F020E02110210" \o
        "02130212021502140217021602190218021B021A021D021C021F021E02230222022502240227022602290228" \o
        "022B022A022D022C022F022E0231023002330232023C023B023F2C7E02402C7F024202410247024602490248" \o
        "024B024A024D024C024F024E02502C6F02512C6D02522C700253018102540186025601890257018A0259018F" \o
        "025B0190025CA7AB026001930261A7AC026301940265A78D0266A7AA0268019702690196026AA7AE026B2C62" \o
        "026CA7AD026F019C02712C6E0272019D0275019F027D2C64028001A60282A7C5028301A90287A7B1028801AE" \o
        "02890244028A01B1028B01B2028C0245029201B7029DA7B2029EA7B003450399037103700373037203770376" \o
        "037B03FD037C03FE037D03FF03AC038603AD038803AE038903AF038A03B1039103B2039203B3039303B40394" \o
        "03B5039503B6039603B7039703B8039803B9039903BA039A03BB039B03BC039C03BD039D03BE039E03BF039F" \o
        "03C003A003C103A103C203A303C303A303C403A403C503A503C603A603C703A703C803A803C903A903CA03AA" \o
        "03CB03AB03CC038C03CD038E03CE038F03D0039203D1039803D503A603D603A003D703CF03D903D803DB03DA" \o
        "03DD03DC03DF03DE03E103E003E303E203E503E403E703E603E903E803EB03EA03ED03EC03EF03EE03F0039A" \o
        "03F103A103F203F903F3037F03F5039503F803F703FB03FA0430041004310411043204120433041304340414" \o
        "0435041504360416043704170438041804390419043A041A043B041B043C041C043D041D043E041E043F041F" \o
        "04400420044104210442042204430423044404240445042504460426044704270448042804490429044A042A" \o
        "044B042B044C042C044D042D044E042E044F042F045004000451040104520402045304030454040404550405" \o
        "04560406045704070458040804590409045A040A045B040B045C040C045D040D045E040E045F040F04610460" \o
        "04630462046504640467046604690468046B046A046D046C046F046E04710470047304720475047404770476" \o
        "04790478047B047A047D047C047F047E04810480048B048A048D048C048F048E049104900493049204950494" \o
        "0497049604990498049B049A049D049C049F049E04A104A004A304A204A504A404A704A604A904A804AB04AA" \o
        "04AD04AC04AF04AE04B104B004B304B204B504B404B704B604B904B804BB04BA04BD04BC04BF04BE04C204C1" \o
        "04C404C304C604C504C804C704CA04C904CC04CB04CE04CD04CF04C004D104D004D304D204D504D404D704D6" \o
        "04D904D804DB04DA04DD04DC04DF04DE04E104E004E304E204E504E404E704E604E904E804EB04EA04ED04EC" \o
        "04EF04EE04F104F004F304F204F504F404F704F604F904F804FB04FA04FD04FC04FF04FE0501050005030502" \o
        "050505040507050605090508050B050A050D050C050F050E0511051005130512051505140517051605190518" \o
        "051B051A051D051C051F051E0521052005230522052505240527052605290528052B052A052D052C052F052E" \o
        "056105310562053205630533056405340565053505660536056705370568053805690539056A053A056B053B" \o
        "056C053C056D053D056E053E056F053F05700540057105410572054205730543057405440575054505760546" \o
        "057705470578054805790549057A054A057B054B057C054C057D054D057E054E057F054F0580055005810551" \o
        "058205520583055305840554058505550586055613F813F013F913F113FA13F213FB13F313FC13F413FD13F5" \o
        "1C8004121C8104141C82041E1C8304211C8404221C8504221C86042A1C8704621C88A64A1D79A77D1D7D2C63" \o
        "1D8EA7C61E011E001E031E021E051E041E071E061E091E081E0B1E0A1E0D1E0C1E0F1E0E1E111E101E131E12" \o
        "1E151E141E171E161E191E181E1B1E1A1E1D1E1C1E1F1E1E1E211E201E231E221E251E241E271E261E291E28" \o
        "1E2B1E2A1E2D1E2C1E2F1E2E1E311E301E331E321E351E341E371E361E391E381E3B1E3A1E3D1E3C1E3F1E3E" \o
        "1E411E401E431E421E451E441E471E461E491E481E4B1E4A1E4D1E4C1E4F1E4E1E511E501E531E521E551E54" \o
        "1E571E561E591E581E5B1E5A1E5D1E5C1E5F1E5E1E611E601E631E621E651E641E671E661E691E681E6B1E6A" \o
        "1E6D1E6C1E6F1E6E1E711E701E731E721E751E741E771E761E791E781E7B1E7A1E7D1E7C1E7F1E7E1E811E80" \o
        "1E831E821E851E841E871E861E891E881E8B1E8A1E8D1E8C1E8F1E8E1E911E901E931E921E951E941E9B1E60" \o
        "1EA11EA01EA31EA21EA51EA41EA71EA61EA91EA81EAB1EAA1EAD1EAC1EAF1EAE1EB11EB01EB31EB21EB51EB4" \o
        "1EB71EB61EB91EB81EBB1EBA1EBD1EBC1EBF1EBE1EC11EC01EC31EC21EC51EC41EC71EC61EC91EC81ECB1ECA" \o
        "1ECD1ECC1ECF1ECE1ED11ED01ED31ED21ED51ED41ED71ED61ED91ED81EDB1EDA1EDD1EDC1EDF1EDE1EE11EE0" \o
        "1EE31EE21EE51EE41EE71EE61EE91EE81EEB1EEA1EED1EEC1EEF1EEE1EF11EF01EF31EF21EF51EF41EF71EF6" \o
        "1EF91EF81EFB1EFA1EFD1EFC1EFF1EFE1F001F081F011F091F021F0A1F031F0B1F041F0C1F051F0D1F061F0E" \o
        "1F071F0F1F101F181F111F191F121F1A1F131F1B1F141F1C1F151F1D1F201F281F211F291F221F2A1F231F2B" \o
        "1F241F2C1F251F2D1F261F2E1F271F2F1F301F381F311F391F321F3A1F331F3B1F341F3C1F351F3D1F361F3E" \o
        "1F371F3F1F401F481F411F491F421F4A1F431F4B1F441F4C1F451F4D1F511F591F531F5B1F551F5D1F571F5F" \o
        "1F601F681F611F691F621F6A1F631F6B1F641F6C1F651F6D1F661F6E1F671F6F1F701FBA1F711FBB1F721FC8" \o
        "1F731FC91F741FCA1F751FCB1F761FDA1F771FDB1F781FF81F791FF91F7A1FEA1F7B1FEB1F7C1FFA1F7D1FFB" \o
        "1F801F881F811F891F821F8A1F831F8B1F841F8C1F851F8D1F861F8E1F871F8F1F901F981F911F991F921F9A" \o
        "1F931F9B1F941F9C1F951F9D1F961F9E1F971F9F1FA01FA81FA11FA91FA21FAA1FA31FAB1FA41FAC1FA51FAD" \o
        "1FA61FAE1FA71FAF1FB01FB81FB11FB91FB31FBC1FBE03991FC31FCC1FD01FD81FD11FD91FE01FE81FE11FE9" \o
        "1FE51FEC1FF31FFC214E21322170216021712161217221622173216321742164217521652176216621772167" \o
        "2178216821792169217A216A217B216B217C216C217D216D217E216E217F216F2184218324D024B624D124B7" \o
        "24D224B824D324B924D424BA24D524BB24D624BC24D724BD24D824BE24D924BF24DA24C024DB24C124DC24C2" \o
        "24DD24C324DE24C424DF24C524E024C624E124C724E224C824E324C924E424CA24E524CB24E624CC24E724CD" \o
        "24E824CE24E924CF2C302C002C312C012C322C022C332C032C342C042C352C052C362C062C372C072C382C08" \o
        "2C392C092C3A2C0A2C3B2C0B2C3C2C0C2C3D2C0D2C3E2C0E2C3F2C0F2C402C102C412C112C422C122C432C13" \o
        "2C442C142C452C152C462C162C472C172C482C182C492C192C4A2C1A2C4B2C1B2C4C2C1C2C4D2C1D2C4E2C1E" \o
        "2C4F2C1F2C502C202C512C212C522C222C532C232C542C242C552C252C562C262C572C272C582C282C592C29" \o
        "2C5A2C2A2C5B2C2B2C5C2C2C2C5D2C2D2C5E2C2E2C5F2C2F2C612C602C65023A2C66023E2C682C672C6A2C69" \o
        "2C6C2C6B2C732C722C762C752C812C802C832C822C852C842C872C862C892C882C8B2C8A2C8D2C8C2C8F2C8E" \o
        "2C912C902C932C922C952C942C972C962C992C982C9B2C9A2C9D2C9C2C9F2C9E2CA12CA02CA32CA22CA52CA4" \o
        "2CA72CA62CA92CA82CAB2CAA2CAD2CAC2CAF2CAE2CB12CB02CB32CB22CB52CB42CB72CB62CB92CB82CBB2CBA" \o
        "2CBD2CBC2CBF2CBE2CC12CC02CC32CC22CC52CC42CC72CC62CC92CC82CCB2CCA2CCD2CCC2CCF2CCE2CD12CD0" \o
        "2CD32CD22CD52CD42CD72CD62CD92CD82CDB2CDA2CDD2CDC2CDF2CDE2CE12CE02CE32CE22CEC2CEB2CEE2CED" \o
        "2CF32CF22D0010A02D0110A12D0210A22D0310A32D0410A42D0510A52D0610A62D0710A72D0810A82D0910A9" \o
        "2D0A10AA2D0B10AB2D0C10AC2D0D10AD2D0E10AE2D0F10AF2D1010B02D1110B12D1210B22D1310B32D1410B4" \o
        "2D1510B52D1610B62D1710B72D1810B82D1910B92D1A10BA2D1B10BB2D1C10BC2D1D10BD2D1E10BE2D1F10BF" \o
        "2D2010C02D2110C12D2210C22D2310C32D2410C42D2510C52D2710C72D2D10CDA641A640A643A642A645A644" \o
        "A647A646A649A648A64BA64AA64DA64CA64FA64EA651A650A653A652A655A654A657A656A659A658A65BA65A" \o
        "A65DA65CA65FA65EA661A660A663A662A665A664A667A666A669A668A66BA66AA66DA66CA681A680A683A682" \o
        "A685A684A687A686A689A688A68BA68AA68DA68CA68FA68EA691A690A693A692A695A694A697A696A699A698" \o
        "A69BA69AA723A722A725A724A727A726A729A728A72BA72AA72DA72CA72FA72EA733A732A735A734A737A736" \o
        "A739A738A73BA73AA73DA73CA73FA73EA741A740A743A742A745A744A747A746A749A748A74BA74AA74DA74C" \o
        "A74FA74EA751A750A753A752A755A754A757A756A759A758A75BA75AA75DA75CA75FA75EA761A760A763A762" \o
        "A765A764A767A766A769A768A76BA76AA76DA76CA76FA76EA77AA779A77CA77BA77FA77EA781A780A783A782" \o
        "A785A784A787A786A78CA78BA791A790A793A792A794A7C4A797A796A799A798A79BA79AA79DA79CA79FA79E" \o
        "A7A1A7A0A7A3A7A2A7A5A7A4A7A7A7A6A7A9A7A8A7B5A7B4A7B7A7B6A7B9A7B8A7BBA7BAA7BDA7BCA7BFA7BE" \o
        "A7C1A7C0A7C3A7C2A7C8A7C7A7CAA7C9A7D1A7D0A7D7A7D6A7D9A7D8A7F6A7F5AB53A7B3AB7013A0AB7113A1" \o
        "AB7213A2AB7313A3AB7413A4AB7513A5AB7613A6AB7713A7AB7813A8AB7913A9AB7A13AAAB7B13ABAB7C13AC" \o
        "AB7D13ADAB7E13AEAB7F13AFAB8013B0AB8113B1AB8213B2AB8313B3AB8413B4AB8513B5AB8613B6AB8713B7" \o
        "AB8813B8AB8913B9AB8A13BAAB8B13BBAB8C13BCAB8D13BDAB8E13BEAB8F13BFAB9013C0AB9113C1AB9213C2" \o
        "AB9313C3AB9413C4AB9513C5AB9613C6AB9713C7AB9813C8AB9913C9AB9A13CAAB9B13CBAB9C13CCAB9D13CD" \o
        "AB9E13CEAB9F13CFABA013D0ABA113D1ABA213D2ABA313D3ABA413D4ABA513D5ABA613D6ABA713D7ABA813D8" \o
        "ABA913D9ABAA13DAABAB13DBABAC13DCABAD13DDABAE13DEABAF13DFABB013E0ABB113E1ABB213E2ABB313E3" \o
        "ABB413E4ABB513E5ABB613E6ABB713E7ABB813E8ABB913E9ABBA13EAABBB13EBABBC13ECABBD13EDABBE13EE" \o
        "ABBF13EFFF41FF21FF42FF22FF43FF23FF44FF24FF45FF25FF46FF26FF47FF27FF48FF28FF49FF29FF4AFF2A" \o
        "FF4BFF2BFF4CFF2CFF4DFF2DFF4EFF2EFF4FFF2FFF50FF30FF51FF31FF52FF32FF53FF33FF54FF34FF55FF35" \o
        "FF56FF36FF57FF37FF58FF38FF59FF39FF5AFF3A",
        4)) @@
    PairTable(CodePoints(
        "104281040010429104011042A104021042B104031042C104041042D104051042E104061042F1040710430104" \o
        "081043110409104321040A104331040B104341040C104351040D104361040E104371040F1043810410104391" \o
        "04111043A104121043B104131043C104141043D104151043E104161043F10417104401041810441104191044" \o
        "21041A104431041B104441041C104451041D104461041E104471041F104481042010449104211044A1042210" \o
        "44B104231044C104241044D104251044E104261044F10427104D8104B0104D9104B1104DA104B2104DB104B3" \o
        "104DC104B4104DD104B5104DE104B6104DF104B7104E0104B8104E1104B9104E2104BA104E3104BB104E4104" \o
        "BC104E5104BD104E6104BE104E7104BF104E8104C0104E9104C1104EA104C2104EB104C3104EC104C4104ED1" \o
        "04C5104EE104C6104EF104C7104F0104C8104F1104C9104F2104CA104F3104CB104F4104CC104F5104CD104F" \o
        "6104CE104F7104CF104F8104D0104F9104D1104FA104D2104FB104D310597105701059810571105991057210" \o
        "59A105731059B105741059C105751059D105761059E105771059F10578105A010579105A11057A105A31057C" \o
        "105A41057D105A51057E105A61057F105A710580105A810581105A910582105AA10583105AB10584105AC105" \o
        "85105AD10586105AE10587105AF10588105B010589105B11058A105B31058C105B41058D105B51058E105B61" \o
        "058F105B710590105B810591105B910592105BB10594105BC1059510CC010C8010CC110C8110CC210C8210CC" \o
        "310C8310CC410C8410CC510C8510CC610C8610CC710C8710CC810C8810CC910C8910CCA10C8A10CCB10C8B10" \o
        "CCC10C8C10CCD10C8D10CCE10C8E10CCF10C8F10CD010C9010CD110C9110CD210C9210CD310C9310CD410C94" \o
        "10CD510C9510CD610C9610CD710C9710CD810C9810CD910C9910CDA10C9A10CDB10C9B10CDC10C9C10CDD10C" \o
        "9D10CDE10C9E10CDF10C9F10CE010CA010CE110CA110CE210CA210CE310CA310CE410CA410CE510CA510CE61" \o
        "0CA610CE710CA710CE810CA810CE910CA910CEA10CAA10CEB10CAB10CEC10CAC10CED10CAD10CEE10CAE10CE" \o
        "F10CAF10CF010CB010CF110CB110CF210CB2118C0118A0118C1118A1118C2118A2118C3118A3118C4118A411" \o
        "8C5118A5118C6118A6118C7118A7118C8118A8118C9118A9118CA118AA118CB118AB118CC118AC118CD118AD" \o
        "118CE118AE118CF118AF118D0118B0118D1118B1118D2118B2118D3118B3118D4118B4118D5118B5118D6118" \o
        "B6118D7118B7118D8118B8118D9118B9118DA118BA118DB118BB118DC118BC118DD118BD118DE118BE118DF1" \o
        "18BF16E6016E4016E6116E4116E6216E4216E6316E4316E6416E4416E6516E4516E6616E4616E6716E4716E6" \o
        "816E4816E6916E4916E6A16E4A16E6B16E4B16E6C16E4C16E6D16E4D16E6E16E4E16E6F16E4F16E7016E5016" \o
        "E7116E5116E7216E5216E7316E5316E7416E5416E7516E5516E7616E5616E7716E5716E7816E5816E7916E59" \o
        "16E7A16E5A16E7B16E5B16E7C16E5C16E7D16E5D16E7E16E5E16E7F16E5F1E9221E9001E9231E9011E9241E9" \o
        "021E9251E9031E9261E9041E9271E9051E9281E9061E9291E9071E92A1E9081E92B1E9091E92C1E90A1E92D1" \o
        "E90B1E92E1E90C1E92F1E90D1E9301E90E1E9311E90F1E9321E9101E9331E9111E9341E9121E9351E9131E93" \o
        "61E9141E9371E9151E9381E9161E9391E9171E93A1E9181E93B1E9191E93C1E91A1E93D1E91B1E93E1E91C1E" \o
        "93F1E91D1E9401E91E1E9411E91F1E9421E9201E9431E921",
        5))

\* The cased characters that are not case-ignorable: the ones that put a capital
\* sigma in or out of the final position for str.lower
Cased ==
    {"A", "B", "C", "D", "E", "F", "G", "H", "I", "J", "K", "L", "M", "N", "O", "P", "Q", "R",
     "S", "T", "U", "V", "W", "X", "Y", "Z", "a", "b", "c", "d", "e", "f", "g", "h", "i", "j",
     "k", "l", "m", "n", "o", "p", "q", "r", "s", "t", "u", "v", "w", "x", "y", "z"} \cup
    Range(CodePoints(
        "00AA00B500BA00C000C100C200C300C400C500C600C700C800C900CA00CB00CC00CD00CE00CF00D000D100D2" \o
        "00D300D400D500D600D800D900DA00DB00DC00DD00DE00DF00E000E100E200E300E400E500E600E700E800E9" \o
        "00EA00EB00EC00ED00EE00EF00F000F100F200F300F400F500F600F800F900FA00FB00FC00FD00FE00FF0100" \o
        "010101020103010401050106010701080109010A010B010C010D010E010F0110011101120113011401150116" \o
        "011701180119011A011B011C011D011E011F0120012101220123012401250126012701280129012A012B012C" \o
        "012D012E012F0130013101320133013401350136013701380139013A013B013C013D013E013F014001410142" \o
        "0143014401450146014701480149014A014B014C014D014E014F015001510152015301540155015601570158" \o
        "0159015A015B015C015D015E015F0160016101620163016401650166016701680169016A016B016C016D016E" \o
        "016F0170017101720173017401750176017701780179017A017B017C017D017E017F01800181018201830184" \o
        "01850186018701880189018A018B018C018D018E018F0190019101920193019401950196019701980199019A" \o
        "019B019C019D019E019F01A001A101A201A301A401A501A601A701A801A901AA01AB01AC01AD01AE01AF01B0" \o
        "01B101B201B301B401B501B601B701B801B901BA01BC01BD01BE01BF01C401C501C601C701C801C901CA01CB" \o
        "01CC01CD01CE01CF01D001D101D201D301D401D501D601D701D801D901DA01DB01DC01DD01DE01DF01E001E1" \o
        "01E201E301E401E501E601E701E801E901EA01EB01EC01ED01EE01EF01F001F101F201F301F401F501F601F7" \o
        "01F801F901FA01FB01FC01FD01FE01FF0200020102020203020402050206020702080209020A020B020C020D" \o
        "020E020F0210021102120213021402150216021702180219021A021B021C021D021E021F0220022102220223" \o
        "022402250226022702280229022A022B022C022D022E022F0230023102320233023402350236023702380239" \o
        "023A023B023C023D023E023F0240024102420243024402450246024702480249024A024B024C024D024E024F" \o
        "0250025102520253025402550256025702580259025A025B025C025D025E025F026002610262026302640265" \o
        "0266026702680269026A026B026C026D026E026F0270027102720273027402750276027702780279027A027B" \o
        "027C027D027E027F0280028102820283028402850286028702880289028A028B028C028D028E028F02900291" \o
        "0292029302950296029702980299029A029B029C029D029E029F02A002A102A202A302A402A502A602A702A8" \o
        "02A902AA02AB02AC02AD02AE02AF037003710372037303760377037B037C037D037F038603880389038A038C" \o
        "038E038F0390039103920393039403950396039703980399039A039B039C039D039E039F03A003A103A303A4" \o
        "03A503A603A703A803A903AA03AB03AC03AD03AE03AF03B003B103B203B303B403B503B603B703B803B903BA" \o
        "03BB03BC03BD03BE03BF03C003C103C203C303C403C503C603C703C803C903CA03CB03CC03CD03CE03CF03D0" \o
        "03D103D203D303D403D503D603D703D803D903DA03DB03DC03DD03DE03DF03E003E103E203E303E403E503E6" \o
        "03E703E803E903EA03EB03EC03ED03EE03EF03F003F103F203F303F403F503F703F803F903FA03FB03FC03FD" \o
        "03FE03FF0400040104020403040404050406040704080409040A040B040C040D040E040F0410041104120413" \o
        "041404150416041704180419041A041B041C041D041E041F0420042104220423042404250426042704280429" \o
        "042A042B042C042D042E042F0430043104320433043404350436043704380439043A043B043C043D043E043F" \o
        "0440044104420443044404450446044704480449044A044B044C044D044E044F045004510452045304540455" \o
        "0456045704580459045A045B045C045D045E045F0460046104620463046404650466046704680469046A046B" \o
        "046C046D046E046F0470047104720473047404750476047704780479047A047B047C047D047E047F04800481" \o
        "048A048B048C048D048E048F0490049104920493049404950496049704980499049A049B049C049D049E049F" \o
        "04A004A104A204A304A404A504A604A704A804A904AA04AB04AC04AD04AE04AF04B004B104B204B304B404B5" \o
        "04B604B704B804B904BA04BB04BC04BD04BE04BF04C004C104C204C304C404C504C604C704C804C904CA04CB" \o
        "04CC04CD04CE04CF04D004D104D204D304D404D504D604D704D804D904DA04DB04DC04DD04DE04DF04E004E1" \o
        "04E204E304E404E504E604E704E804E904EA04EB04EC04ED04EE04EF04F004F104F204F304F404F504F604F7" \o
        "04F804F904FA04FB04FC04FD04FE04FF0500050105020503050405050506050705080509050A050B050C050D" \o
        "050E050F0510051105120513051405150516051705180519051A051B051C051D051E051F0520052105220523" \o
        "052405250526052705280529052A052B052C052D052E052F053105320533053405350536053705380539053A" \o
        "053B053C053D053E053F0540054105420543054405450546054705480549054A054B054C054D054E054F0550" \o
        "0551055205530554055505560560056105620563056405650566056705680569056A056B056C056D056E056F" \o
        "0570057105720573057405750576057705780579057A057B057C057D057E057F058005810582058305840585" \o
        "05860587058810A010A110A210A310A410A510A610A710A810A910AA10AB10AC10AD10AE10AF10B010B110B2" \o
        "10B310B410B510B610B710B810B910BA10BB10BC10BD10BE10BF10C010C110C210C310C410C510C710CD10D0" \o
        "10D110D210D310D410D510D610D710D810D910DA10DB10DC10DD10DE10DF10E010E110E210E310E410E510E6" \o
        "10E710E810E910EA10EB10EC10ED10EE10EF10F010F110F210F310F410F510F610F710F810F910FA10FD10FE" \o
        "10FF13A013A113A213A313A413A513A613A713A813A913AA13AB13AC13AD13AE13AF13B013B113B213B313B4" \o
        "13B513B613B713B813B913BA13BB13BC13BD13BE13BF13C013C113C213C313C413C513C613C713C813C913CA" \o
        "13CB13CC13CD13CE13CF13D013D113D213D313D413D513D613D713D813D913DA13DB13DC13DD13DE13DF13E0" \o
        "13E113E213E313E413E513E613E713E813E913EA13EB13EC13ED13EE13EF13F013F113F213F313F413F513F8" \o
        "13F913FA13FB13FC13FD1C801C811C821C831C841C851C861C871C881C901C911C921C931C941C951C961C97" \o
        "1C981C991C9A1C9B1C9C1C9D1C9E1C9F1CA01CA11CA21CA31CA41CA51CA61CA71CA81CA91CAA1CAB1CAC1CAD" \o
        "1CAE1CAF1CB01CB11CB21CB31CB41CB51CB61CB71CB81CB91CBA1CBD1CBE1CBF1D001D011D021D031D041D05" \o
        "1D061D071D081D091D0A1D0B1D0C1D0D1D0E1D0F1D101D111D121D131D141D151D161D171D181D191D1A1D1B" \o
        "1D1C1D1D1D1E1D1F1D201D211D221D231D241D251D261D271D281D291D2A1D2B1D6B1D6C1D6D1D6E1D6F1D70" \o
        "1D711D721D731D741D751D761D771D791D7A1D7B1D7C1D7D1D7E1D7F1D801D811D821D831D841D851D861D87" \o
        "1D881D891D8A1D8B1D8C1D8D1D8E1D8F1D901D911D921D931D941D951D961D971D981D991D9A1E001E011E02" \o
        "1E031E041E051E061E071E081E091E0A1E0B1E0C1E0D1E0E1E0F1E101E111E121E131E141E151E161E171E18" \o
        "1E191E1A1E1B1E1C1E1D1E1E1E1F1E201E211E221E231E241E251E261E271E281E291E2A1E2B1E2C1E2D1E2E" \o
        "1E2F1E301E311E321E331E341E351E361E371E381E391E3A1E3B1E3C1E3D1E3E1E3F1E401E411E421E431E44" \o
        "1E451E461E471E481E491E4A1E4B1E4C1E4D1E4E1E4F1E501E511E521E531E541E551E561E571E581E591E5A" \o
        "1E5B1E5C1E5D1E5E1E5F1E601E611E621E631E641E651E661E671E681E691E6A1E6B1E6C1E6D1E6E1E6F1E70" \o
        "1E711E721E731E741E751E761E771E781E791E7A1E7B1E7C1E7D1E7E1E7F1E801E811E821E831E841E851E86" \o
        "1E871E881E891E8A1E8B1E8C1E8D1E8E1E8F1E901E911E921E931E941E951E961E971E981E991E9A1E9B1E9C" \o
        "1E9D1E9E1E9F1EA01EA11EA21EA31EA41EA51EA61EA71EA81EA91EAA1EAB1EAC1EAD1EAE1EAF1EB01EB11EB2" \o
        "1EB31EB41EB51EB61EB71EB81EB91EBA1EBB1EBC1EBD1EBE1EBF1EC01EC11EC21EC31EC41EC51EC61EC71EC8" \o
        "1EC91ECA1ECB1ECC1ECD1ECE1ECF1ED01ED11ED21ED31ED41ED51ED61ED71ED81ED91EDA1EDB1EDC1EDD1EDE" \o
        "1EDF1EE01EE11EE21EE31EE41EE51EE61EE71EE81EE91EEA1EEB1EEC1EED1EEE1EEF1EF01EF11EF21EF31EF4" \o
        "1EF51EF61EF71EF81EF91EFA1EFB1EFC1EFD1EFE1EFF1F001F011F021F031F041F051F061F071F081F091F0A" \o
        "1F0B1F0C1F0D1F0E1F0F1F101F111F121F131F141F151F181F191F1A1F1B1F1C1F1D1F201F211F221F231F24" \o
        "1F251F261F271F281F291F2A1F2B1F2C1F2D1F2E1F2F1F301F311F321F331F341F351F361F371F381F391F3A" \o
        "1F3B1F3C1F3D1F3E1F3F1F401F411F421F431F441F451F481F491F4A1F4B1F4C1F4D1F501F511F521F531F54" \o
        "1F551F561F571F591F5B1F5D1F5F1F601F611F621F631F641F651F661F671F681F691F6A1F6B1F6C1F6D1F6E" \o
        "1F6F1F701F711F721F731F741F751F761F771F781F791F7A1F7B1F7C1F7D1F801F811F821F831F841F851F86" \o
        "1F871F881F891F8A1F8B1F8C1F8D1F8E1F8F1F901F911F921F931F941F951F961F971F981F991F9A1F9B1F9C" \o
        "1F9D1F9E1F9F1FA01FA11FA21FA31FA41FA51FA61FA71FA81FA91FAA1FAB1FAC1FAD1FAE1FAF1FB01FB11FB2" \o
        "1FB31FB41FB61FB71FB81FB91FBA1FBB1FBC1FBE1FC21FC31FC41FC61FC71FC81FC91FCA1FCB1FCC1FD01FD1" \o
        "1FD21FD31FD61FD71FD81FD91FDA1FDB1FE01FE11FE21FE31FE41FE51FE61FE71FE81FE91FEA1FEB1FEC1FF2" \o
        "1FF31FF41FF61FF71FF81FF91FFA1FFB1FFC21022107210A210B210C210D210E210F21102111211221132115" \o
        "2119211A211B211C211D212421262128212A212B212C212D212F213021312132213321342139213C213D213E" \o
        "213F21452146214721482149214E2160216121622163216421652166216721682169216A216B216C216D216E" \o
        "216F2170217121722173217421752176217721782179217A217B217C217D217E217F2183218424B624B724B8" \o
        "24B924BA24BB24BC24BD24BE24BF24C024C124C224C324C424C524C624C724C824C924CA24CB24CC24CD24CE" \o
        "24CF24D024D124D224D324D424D524D624D724D824D924DA24DB24DC24DD24DE24DF24E024E124E224E324E4" \o
        "24E524E624E724E824E92C002C012C022C032C042C052C062C072C082C092C0A2C0B2C0C2C0D2C0E2C0F2C10" \o
        "2C112C122C132C142C152C162C172C182C192C1A2C1B2C1C2C1D2C1E2C1F2C202C212C222C232C242C252C26" \o
        "2C272C282C292C2A2C2B2C2C2C2D2C2E2C2F2C302C312C322C332C342C352C362C372C382C392C3A2C3B2C3C" \o
        "2C3D2C3E2C3F2C402C412C422C432C442C452C462C472C482C492C4A2C4B2C4C2C4D2C4E2C4F2C502C512C52" \o
        "2C532C542C552C562C572C582C592C5A2C5B2C5C2C5D2C5E2C5F2C602C612C622C632C642C652C662C672C68" \o
        "2C692C6A2C6B2C6C2C6D2C6E2C6F2C702C712C722C732C742C752C762C772C782C792C7A2C7B2C7E2C7F2C80" \o
        "2C812C822C832C842C852C862C872C882C892C8A2C8B2C8C2C8D2C8E2C8F2C902C912C922C932C942C952C96" \o
        "2C972C982C992C9A2C9B2C9C2C9D2C9E2C9F2CA02CA12CA22CA32CA42CA52CA62CA72CA82CA92CAA2CAB2CAC" \o
        "2CAD2CAE2CAF2CB02CB12CB22CB32CB42CB52CB62CB72CB82CB92CBA2CBB2CBC2CBD2CBE2CBF2CC02CC12CC2" \o
        "2CC32CC42CC52CC62CC72CC82CC92CCA2CCB2CCC2CCD2CCE2CCF2CD02CD12CD22CD32CD42CD52CD62CD72CD8" \o
        "2CD92CDA2CDB2CDC2CDD2CDE2CDF2CE02CE12CE22CE32CE42CEB2CEC2CED2CEE2CF22CF32D002D012D022D03" \o
        "2D042D052D062D072D082D092D0A2D0B2D0C2D0D2D0E2D0F2D102D112D122D132D142D152D162D172D182D19" \o
        "2D1A2D1B2D1C2D1D2D1E2D1F2D202D212D222D232D242D252D272D2DA640A641A642A643A644A645A646A647" \o
        "A648A649A64AA64BA64CA64DA64EA64FA650A651A652A653A654A655A656A657A658A659A65AA65BA65CA65D" \o
        "A65EA65FA660A661A662A663A664A665A666A667A668A669A66AA66BA66CA66DA680A681A682A683A684A685" \o
        "A686A687A688A689A68AA68BA68CA68DA68EA68FA690A691A692A693A694A695A696A697A698A699A69AA69B" \o
        "A722A723A724A725A726A727A728A729A72AA72BA72CA72DA72EA72FA730A731A732A733A734A735A736A737" \o
        "A738A739A73AA73BA73CA73DA73EA73FA740A741A742A743A744A745A746A747A748A749A74AA74BA74CA74D" \o
        "A74EA74FA750A751A752A753A754A755A756A757A758A759A75AA75BA75CA75DA75EA75FA760A761A762A763" \o
        "A764A765A766A767A768A769A76AA76BA76CA76DA76EA76FA771A772A773A774A775A776A777A778A779A77A" \o
        "A77BA77CA77DA77EA77FA780A781A782A783A784A785A786A787A78BA78CA78DA78EA790A791A792A793A794" \o
        "A795A796A797A798A799A79AA79BA79CA79DA79EA79FA7A0A7A1A7A2A7A3A7A4A7A5A7A6A7A7A7A8A7A9A7AA" \o
        "A7ABA7ACA7ADA7AEA7AFA7B0A7B1A7B2A7B3A7B4A7B5A7B6A7B7A7B8A7B9A7BAA7BBA7BCA7BDA7BEA7BFA7C0" \o
        "A7C1A7C2A7C3A7C4A7C5A7C6A7C7A7C8A7C9A7CAA7D0A7D1A7D3A7D5A7D6A7D7A7D8A7D9A7F5A7F6A7FAAB30" \o
        "AB31AB32AB33AB34AB35AB36AB37AB38AB39AB3AAB3BAB3CAB3DAB3EAB3FAB40AB41AB42AB43AB44AB45AB46" \o
        "AB47AB48AB49AB4AAB4BAB4CAB4DAB4EAB4FAB50AB51AB52AB53AB54AB55AB56AB57AB58AB59AB5AAB60AB61" \o
        "AB62AB63AB64AB65AB66AB67AB68AB70AB71AB72AB73AB74AB75AB76AB77AB78AB79AB7AAB7BAB7CAB7DAB7E" \o
        "AB7FAB80AB81AB82AB83AB84AB85AB86AB87AB88AB89AB8AAB8BAB8CAB8DAB8EAB8FAB90AB91AB92AB93AB94" \o
        "AB95AB96AB97AB98AB99AB9AAB9BAB9CAB9DAB9EAB9FABA0ABA1ABA2ABA3ABA4ABA5ABA6ABA7ABA8ABA9ABAA" \o
        "ABABABACABADABAEABAFABB0ABB1ABB2ABB3ABB4ABB5ABB6ABB7ABB8ABB9ABBAABBBABBCABBDABBEABBFFB00" \o
        "FB01FB02FB03FB04FB05FB06FB13FB14FB15FB16FB17FF21FF22FF23FF24FF25FF26FF27FF28FF29FF2AFF2B" \o
        "FF2CFF2DFF2EFF2FFF30FF31FF32FF33FF34FF35FF36FF37FF38FF39FF3AFF41FF42FF43FF44FF45FF46FF47" \o
        "FF48FF49FF4AFF4BFF4CFF4DFF4EFF4FFF50FF51FF52FF53FF54FF55FF56FF57FF58FF59FF5A",
        4)) \cup
    Range(CodePoints(
        "104001040110402104031040410405104061040710408104091040A1040B1040C1040D1040E1040F10410104" \o
        "1110412104131041410415104161041710418104191041A1041B1041C1041D1041E1041F1042010421104221" \o
        "04231042410425104261042710428104291042A1042B1042C1042D1042E1042F104301043110432104331043" \o
        "410435104361043710438104391043A1043B1043C1043D1043E1043F10440104411044210443104441044510" \o
        "4461044710448104491044A1044B1044C1044D1044E1044F104B0104B1104B2104B3104B4104B5104B6104B7" \o
        "104B8104B9104BA104BB104BC104BD104BE104BF104C0104C1104C2104C3104C4104C5104C6104C7104C8104" \o
        "C9104CA104CB104CC104CD104CE104CF104D0104D1104D2104D3104D8104D9104DA104DB104DC104DD104DE1" \o
        "04DF104E0104E1104E2104E3104E4104E5104E6104E7104E8104E9104EA104EB104EC104ED104EE104EF104F" \o
        "0104F1104F2104F3104F4104F5104F6104F7104F8104F9104FA104FB10570105711057210573105741057510" \o
        "5761057710578105791057A1057C1057D1057E1057F105801058110582105831058410585105861058710588" \o
        "105891058A1058C1058D1058E1058F10590105911059210594105951059710598105991059A1059B1059C105" \o
        "9D1059E1059F105A0105A1105A3105A4105A5105A6105A7105A8105A9105AA105AB105AC105AD105AE105AF1" \o
        "05B0105B1105B3105B4105B5105B6105B7105B8105B9105BB105BC10C8010C8110C8210C8310C8410C8510C8" \o
        "610C8710C8810C8910C8A10C8B10C8C10C8D10C8E10C8F10C9010C9110C9210C9310C9410C9510C9610C9710" \o
        "C9810C9910C9A10C9B10C9C10C9D10C9E10C9F10CA010CA110CA210CA310CA410CA510CA610CA710CA810CA9" \o
        "10CAA10CAB10CAC10CAD10CAE10CAF10CB010CB110CB210CC010CC110CC210CC310CC410CC510CC610CC710C" \o
        "C810CC910CCA10CCB10CCC10CCD10CCE10CCF10CD010CD110CD210CD310CD410CD510CD610CD710CD810CD91" \o
        "0CDA10CDB10CDC10CDD10CDE10CDF10CE010CE110CE210CE310CE410CE510CE610CE710CE810CE910CEA10CE" \o
        "B10CEC10CED10CEE10CEF10CF010CF110CF2118A0118A1118A2118A3118A4118A5118A6118A7118A8118A911" \o
        "8AA118AB118AC118AD118AE118AF118B0118B1118B2118B3118B4118B5118B6118B7118B8118B9118BA118BB" \o
        "118BC118BD118BE118BF118C0118C1118C2118C3118C4118C5118C6118C7118C8118C9118CA118CB118CC118" \o
        "CD118CE118CF118D0118D1118D2118D3118D4118D5118D6118D7118D8118D9118DA118DB118DC118DD118DE1" \o
        "18DF16E4016E4116E4216E4316E4416E4516E4616E4716E4816E4916E4A16E4B16E4C16E4D16E4E16E4F16E5" \o
        "016E5116E5216E5316E5416E5516E5616E5716E5816E5916E5A16E5B16E5C16E5D16E5E16E5F16E6016E6116" \o
        "E6216E6316E6416E6516E6616E6716E6816E6916E6A16E6B16E6C16E6D16E6E16E6F16E7016E7116E7216E73" \o
        "16E7416E7516E7616E7716E7816E7916E7A16E7B16E7C16E7D16E7E16E7F1D4001D4011D4021D4031D4041D4" \o
        "051D4061D4071D4081D4091D40A1D40B1D40C1D40D1D40E1D40F1D4101D4111D4121D4131D4141D4151D4161" \o
        "D4171D4181D4191D41A1D41B1D41C1D41D1D41E1D41F1D4201D4211D4221D4231D4241D4251D4261D4271D42" \o
        "81D4291D42A1D42B1D42C1D42D1D42E1D42F1D4301D4311D4321D4331D4341D4351D4361D4371D4381D4391D" \o
        "43A1D43B1D43C1D43D1D43E1D43F1D4401D4411D4421D4431D4441D4451D4461D4471D4481D4491D44A1D44B" \o
        "1D44C1D44D1D44E1D44F1D4501D4511D4521D4531D4541D4561D4571D4581D4591D45A1D45B1D45C1D45D1D4" \o
        "5E1D45F1D4601D4611D4621D4631D4641D4651D4661D4671D4681D4691D46A1D46B1D46C1D46D1D46E1D46F1" \o
        "D4701D4711D4721D4731D4741D4751D4761D4771D4781D4791D47A1D47B1D47C1D47D1D47E1D47F1D4801D48" \o
        "11D4821D4831D4841D4851D4861D4871D4881D4891D48A1D48B1D48C1D48D1D48E1D48F1D4901D4911D4921D" \o
        "4931D4941D4951D4961D4971D4981D4991D49A1D49B1D49C1D49E1D49F1D4A21D4A51D4A61D4A91D4AA1D4AB" \o
        "1D4AC1D4AE1D4AF1D4B01D4B11D4B21D4B31D4B41D4B51D4B61D4B71D4B81D4B91D4BB1D4BD1D4BE1D4BF1D4" \o
        "C01D4C11D4C21D4C31D4C51D4C61D4C71D4C81D4C91D4CA1D4CB1D4CC1D4CD1D4CE1D4CF1D4D01D4D11D4D21" \o
        "D4D31D4D41D4D51D4D61D4D71D4D81D4D91D4DA1D4DB1D4DC1D4DD1D4DE1D4DF1D4E01D4E11D4E21D4E31D4E" \o
        "41D4E51D4E61D4E71D4E81D4E91D4EA1D4EB1D4EC1D4ED1D4EE1D4EF1D4F01D4F11D4F21D4F31D4F41D4F51D" \o
        "4F61D4F71D4F81D4F91D4FA1D4FB1D4FC1D4FD1D4FE1D4FF1D5001D5011D5021D5031D5041D5051D5071D508" \o
        "1D5091D50A1D50D1D50E1D50F1D5101D5111D5121D5131D5141D5161D5171D5181D5191D51A1D51B1D51C1D5" \o
        "1E1D51F1D5201D5211D5221D5231D5241D5251D5261D5271D5281D5291D52A1D52B1D52C1D52D1D52E1D52F1" \o
        "D5301D5311D5321D5331D5341D5351D5361D5371D5381D5391D53B1D53C1D53D1D53E1D5401D5411D5421D54" \o
        "31D5441D5461D54A1D54B1D54C1D54D1D54E1D54F1D5501D5521D5531D5541D5551D5561D5571D5581D5591D" \o
        "55A1D55B1D55C1D55D1D55E1D55F1D5601D5611D5621D5631D5641D5651D5661D5671D5681D5691D56A1D56B" \o
        "1D56C1D56D1D56E1D56F1D5701D5711D5721D5731D5741D5751D5761D5771D5781D5791D57A1D57B1D57C1D5" \o
        "7D1D57E1D57F1D5801D5811D5821D5831D5841D5851D5861D5871D5881D5891D58A1D58B1D58C1D58D1D58E1" \o
        "D58F1D5901D5911D5921D5931D5941D5951D5961D5971D5981D5991D59A1D59B1D59C1D59D1D59E1D59F1D5A" \o
        "01D5A11D5A21D5A31D5A41D5A51D5A61D5A71D5A81D5A91D5AA1D5AB1D5AC1D5AD1D5AE1D5AF1D5B01D5B11D" \o
        "5B21D5B31D5B41D5B51D5B61D5B71D5B81D5B91D5BA1D5BB1D5BC1D5BD1D5BE1D5BF1D5C01D5C11D5C21D5C3" \o
        "1D5C41D5C51D5C61D5C71D5C81D5C91D5CA1D5CB1D5CC1D5CD1D5CE1D5CF1D5D01D5D11D5D21D5D31D5D41D5" \o
        "D51D5D61D5D71D5D81D5D91D5DA1D5DB1D5DC1D5DD1D5DE1D5DF1D5E01D5E11D5E21D5E31D5E41D5E51D5E61" \o
        "D5E71D5E81D5E91D5EA1D5EB1D5EC1D5ED1D5EE1D5EF1D5F01D5F11D5F21D5F31D5F41D5F51D5F61D5F71D5F" \o
        "81D5F91D5FA1D5FB1D5FC1D5FD1D5FE1D5FF1D6001D6011D6021D6031D6041D6051D6061D6071D6081D6091D" \o
        "60A1D60B1D60C1D60D1D60E1D60F1D6101D6111D6121D6131D6141D6151D6161D6171D6181D6191D61A1D61B" \o
        "1D61C1D61D1D61E1D61F1D6201D6211D6221D6231D6241D6251D6261D6271D6281D6291D62A1D62B1D62C1D6" \o
        "2D1D62E1D62F1D6301D6311D6321D6331D6341D6351D6361D6371D6381D6391D63A1D63B1D63C1D63D1D63E1" \o
        "D63F1D6401D6411D6421D6431D6441D6451D6461D6471D6481D6491D64A1D64B1D64C1D64D1D64E1D64F1D65" \o
        "01D6511D6521D6531D6541D6551D6561D6571D6581D6591D65A1D65B1D65C1D65D1D65E1D65F1D6601D6611D" \o
        "6621D6631D6641D6651D6661D6671D6681D6691D66A1D66B1D66C1D66D1D66E1D66F1D6701D6711D6721D673" \o
        "1D6741D6751D6761D6771D6781D6791D67A1D67B1D67C1D67D1D67E1D67F1D6801D6811D6821D6831D6841D6" \o
        "851D6861D6871D6881D6891D68A1D68B1D68C1D68D1D68E1D68F1D6901D6911D6921D6931D6941D6951D6961" \o
        "D6971D6981D6991D69A1D69B1D69C1D69D1D69E1D69F1D6A01D6A11D6A21D6A31D6A41D6A51D6A81D6A91D6A" \o
        "A1D6AB1D6AC1D6AD1D6AE1D6AF1D6B01D6B11D6B21D6B31D6B41D6B51D6B61D6B71D6B81D6B91D6BA1D6BB1D" \o
        "6BC1D6BD1D6BE1D6BF1D6C01D6C21D6C31D6C41D6C51D6C61D6C71D6C81D6C91D6CA1D6CB1D6CC1D6CD1D6CE" \o
        "1D6CF1D6D01D6D11D6D21D6D31D6D41D6D51D6D61D6D71D6D81D6D91D6DA1D6DC1D6DD1D6DE1D6DF1D6E01D6" \o
        "E11D6E21D6E31D6E41D6E51D6E61D6E71D6E81D6E91D6EA1D6EB1D6EC1D6ED1D6EE1D6EF1D6F01D6F11D6F21" \o
        "D6F31D6F41D6F51D6F61D6F71D6F81D6F91D6FA1D6FC1D6FD1D6FE1D6FF1D7001D7011D7021D7031D7041D70" \o
        "51D7061D7071D7081D7091D70A1D70B1D70C1D70D1D70E1D70F1D7101D7111D7121D7131D7141D7161D7171D" \o
        "7181D7191D71A1D71B1D71C1D71D1D71E1D71F1D7201D7211D7221D7231D7241D7251D7261D7271D7281D729" \o
        "1D72A1D72B1D72C1D72D1D72E1D72F1D7301D7311D7321D7331D7341D7361D7371D7381D7391D73A1D73B1D7" \o
        "3C1D73D1D73E1D73F1D7401D7411D7421D7431D7441D7451D7461D7471D7481D7491D74A1D74B1D74C1D74D1" \o
        "D74E1D7501D7511D7521D7531D7541D7551D7561D7571D7581D7591D75A1D75B1D75C1D75D1D75E1D75F1D76" \o
        "01D7611D7621D7631D7641D7651D7661D7671D7681D7691D76A1D76B1D76C1D76D1D76E1D7701D7711D7721D" \o
        "7731D7741D7751D7761D7771D7781D7791D77A1D77B1D77C1D77D1D77E1D77F1D7801D7811D7821D7831D784" \o
        "1D7851D7861D7871D7881D78A1D78B1D78C1D78D1D78E1D78F1D7901D7911D7921D7931D7941D7951D7961D7" \o
        "971D7981D7991D79A1D79B1D79C1D79D1D79E1D79F1D7A01D7A11D7A21D7A31D7A41D7A51D7A61D7A71D7A81" \o
        "D7AA1D7AB1D7AC1D7AD1D7AE1D7AF1D7B01D7B11D7B21D7B31D7B41D7B51D7B61D7B71D7B81D7B91D7BA1D7B" \o
        "B1D7BC1D7BD1D7BE1D7BF1D7C01D7C11D7C21D7C41D7C51D7C61D7C71D7C81D7C91D7CA1D7CB1DF001DF011D" \o
        "F021DF031DF041DF051DF061DF071DF081DF091DF0B1DF0C1DF0D1DF0E1DF0F1DF101DF111DF121DF131DF14" \o
        "1DF151DF161DF171DF181DF191DF1A1DF1B1DF1C1DF1D1DF1E1E9001E9011E9021E9031E9041E9051E9061E9" \o
        "071E9081E9091E90A1E90B1E90C1E90D1E90E1E90F1E9101E9111E9121E9131E9141E9151E9161E9171E9181" \o
        "E9191E91A1E91B1E91C1E91D1E91E1E91F1E9201E9211E9221E9231E9241E9251E9261E9271E9281E9291E92" \o
        "A1E92B1E92C1E92D1E92E1E92F1E9301E9311E9321E9331E9341E9351E9361E9371E9381E9391E93A1E93B1E" \o
        "93C1E93D1E93E1E93F1E9401E9411E9421E9431F1301F1311F1321F1331F1341F1351F1361F1371F1381F139" \o
        "1F13A1F13B1F13C1F13D1F13E1F13F1F1401F1411F1421F1431F1441F1451F1461F1471F1481F1491F1501F1" \o
        "511F1521F1531F1541F1551F1561F1571F1581F1591F15A1F15B1F15C1F15D1F15E1F15F1F1601F1611F1621" \o
        "F1631F1641F1651F1661F1671F1681F1691F1701F1711F1721F1731F1741F1751F1761F1771F1781F1791F17" \o
        "A1F17B1F17C1F17D1F17E1F17F1F1801F1811F1821F1831F1841F1851F1861F1871F1881F189",
        5))

\* The case-ignorable characters, which str.lower skips on both sides of a
\* capital sigma
CaseIgnorable ==
    {"'", ".", ":", "^", "U+0060"} \cup
    Range(CodePoints(
        "00A800AD00AF00B400B700B802B002B102B202B302B402B502B602B702B802B902BA02BB02BC02BD02BE02BF" \o
        "02C002C102C202C302C402C502C602C702C802C902CA02CB02CC02CD02CE02CF02D002D102D202D302D402D5" \o
        "02D602D702D802D902DA02DB02DC02DD02DE02DF02E002E102E202E302E402E502E602E702E802E902EA02EB" \o
        "02EC02ED02EE02EF02F002F102F202F302F402F502F602F702F802F902FA02FB02FC02FD02FE02FF03000301" \o
        "03020303030403050306030703080309030A030B030C030D030E030F03100311031203130314031503160317" \o
        "03180319031A031B031C031D031E031F0320032103220323032403250326032703280329032A032B032C032D" \o
        "032E032F0330033103320333033403350336033703380339033A033B033C033D033E033F0340034103420343" \o
        "034403450346034703480349034A034B034C034D034E034F0350035103520353035403550356035703580359" \o
        "035A035B035C035D035E035F0360036103620363036403650366036703680369036A036B036C036D036E036F" \o
        "03740375037A03840385038704830484048504860487048804890559055F0591059205930594059505960597" \o
        "05980599059A059B059C059D059E059F05A005A105A205A305A405A505A605A705A805A905AA05AB05AC05AD" \o
        "05AE05AF05B005B105B205B305B405B505B605B705B805B905BA05BB05BC05BD05BF05C105C205C405C505C7" \o
        "05F40600060106020603060406050610061106120613061406150616061706180619061A061C0640064B064C" \o
        "064D064E064F0650065106520653065406550656065706580659065A065B065C065D065E065F067006D606D7" \o
        "06D806D906DA06DB06DC06DD06DF06E006E106E206E306E406E506E606E706E806EA06EB06EC06ED070F0711" \o
        "0730073107320733073407350736073707380739073A073B073C073D073E073F074007410742074307440745" \o
        "0746074707480749074A07A607A707A807A907AA07AB07AC07AD07AE07AF07B007EB07EC07ED07EE07EF07F0" \o
        "07F107F207F307F407F507FA07FD0816081708180819081A081B081C081D081E081F08200821082208230824" \o
        "08250826082708280829082A082B082C082D0859085A085B08880890089108980899089A089B089C089D089E" \o
        "089F08C908CA08CB08CC08CD08CE08CF08D008D108D208D308D408D508D608D708D808D908DA08DB08DC08DD" \o
        "08DE08DF08E008E108E208E308E408E508E608E708E808E908EA08EB08EC08ED08EE08EF08F008F108F208F3" \o
        "08F408F508F608F708F808F908FA08FB08FC08FD08FE08FF090009010902093A093C09410942094309440945" \o
        "094609470948094D0951095209530954095509560957096209630971098109BC09C109C209C309C409CD09E2" \o
        "09E309FE0A010A020A3C0A410A420A470A480A4B0A4C0A4D0A510A700A710A750A810A820ABC0AC10AC20AC3" \o
        "0AC40AC50AC70AC80ACD0AE20AE30AFA0AFB0AFC0AFD0AFE0AFF0B010B3C0B3F0B410B420B430B440B4D0B55" \o
        "0B560B620B630B820BC00BCD0C000C040C3C0C3E0C3F0C400C460C470C480C4A0C4B0C4C0C4D0C550C560C62" \o
        "0C630C810CBC0CBF0CC60CCC0CCD0CE20CE30D000D010D3B0D3C0D410D420D430D440D4D0D620D630D810DCA" \o
        "0DD20DD30DD40DD60E310E340E350E360E370E380E390E3A0E460E470E480E490E4A0E4B0E4C0E4D0E4E0EB1" \o
        "0EB40EB50EB60EB70EB80EB90EBA0EBB0EBC0EC60EC80EC90ECA0ECB0ECC0ECD0F180F190F350F370F390F71" \o
        "0F720F730F740F750F760F770F780F790F7A0F7B0F7C0F7D0F7E0F800F810F820F830F840F860F870F8D0F8E" \o
        "0F8F0F900F910F920F930F940F950F960F970F990F9A0F9B0F9C0F9D0F9E0F9F0FA00FA10FA20FA30FA40FA5" \o
        "0FA60FA70FA80FA90FAA0FAB0FAC0FAD0FAE0FAF0FB00FB10FB20FB30FB40FB50FB60FB70FB80FB90FBA0FBB" \o
        "0FBC0FC6102D102E102F10301032103310341035103610371039103A103D103E10581059105E105F10601071" \o
        "107210731074108210851086108D109D10FC135D135E135F17121713171417321733175217531772177317B4" \o
        "17B517B717B817B917BA17BB17BC17BD17C617C917CA17CB17CC17CD17CE17CF17D017D117D217D317D717DD" \o
        "180B180C180D180E180F18431885188618A91920192119221927192819321939193A193B1A171A181A1B1A56" \o
        "1A581A591A5A1A5B1A5C1A5D1A5E1A601A621A651A661A671A681A691A6A1A6B1A6C1A731A741A751A761A77" \o
        "1A781A791A7A1A7B1A7C1A7F1AA71AB01AB11AB21AB31AB41AB51AB61AB71AB81AB91ABA1ABB1ABC1ABD1ABE" \o
        "1ABF1AC01AC11AC21AC31AC41AC51AC61AC71AC81AC91ACA1ACB1ACC1ACD1ACE1B001B011B021B031B341B36" \o
        "1B371B381B391B3A1B3C1B421B6B1B6C1B6D1B6E1B6F1B701B711B721B731B801B811BA21BA31BA41BA51BA8" \o
        "1BA91BAB1BAC1BAD1BE61BE81BE91BED1BEF1BF01BF11C2C1C2D1C2E1C2F1C301C311C321C331C361C371C78" \o
        "1C791C7A1C7B1C7C1C7D1CD01CD11CD21CD41CD51CD61CD71CD81CD91CDA1CDB1CDC1CDD1CDE1CDF1CE01CE2" \o
        "1CE31CE41CE51CE61CE71CE81CED1CF41CF81CF91D2C1D2D1D2E1D2F1D301D311D321D331D341D351D361D37" \o
        "1D381D391D3A1D3B1D3C1D3D1D3E1D3F1D401D411D421D431D441D451D461D471D481D491D4A1D4B1D4C1D4D" \o
        "1D4E1D4F1D501D511D521D531D541D551D561D571D581D591D5A1D5B1D5C1D5D1D5E1D5F1D601D611D621D63" \o
        "1D641D651D661D671D681D691D6A1D781D9B1D9C1D9D1D9E1D9F1DA01DA11DA21DA31DA41DA51DA61DA71DA8" \o
        "1DA91DAA1DAB1DAC1DAD1DAE1DAF1DB01DB11DB21DB31DB41DB51DB61DB71DB81DB91DBA1DBB1DBC1DBD1DBE" \o
        "1DBF1DC01DC11DC21DC31DC41DC51DC61DC71DC81DC91DCA1DCB1DCC1DCD1DCE1DCF1DD01DD11DD21DD31DD4" \o
        "1DD51DD61DD71DD81DD91DDA1DDB1DDC1DDD1DDE1DDF1DE01DE11DE21DE31DE41DE51DE61DE71DE81DE91DEA" \o
        "1DEB1DEC1DED1DEE1DEF1DF01DF11DF21DF31DF41DF51DF61DF71DF81DF91DFA1DFB1DFC1DFD1DFE1DFF1FBD" \o
        "1FBF1FC01FC11FCD1FCE1FCF1FDD1FDE1FDF1FED1FEE1FEF1FFD1FFE200B200C200D200E200F201820192024" \o
        "2027202A202B202C202D202E206020612062206320642066206720682069206A206B206C206D206E206F2071" \o
        "207F2090209120922093209420952096209720982099209A209B209C20D020D120D220D320D420D520D620D7" \o
        "20D820D920DA20DB20DC20DD20DE20DF20E020E120E220E320E420E520E620E720E820E920EA20EB20EC20ED" \o
        "20EE20EF20F02C7C2C7D2CEF2CF02CF12D6F2D7F2DE02DE12DE22DE32DE42DE52DE62DE72DE82DE92DEA2DEB" \o
        "2DEC2DED2DEE2DEF2DF02DF12DF22DF32DF42DF52DF62DF72DF82DF92DFA2DFB2DFC2DFD2DFE2DFF2E2F3005" \o
        "302A302B302C302D30313032303330343035303B3099309A309B309C309D309E30FC30FD30FEA015A4F8A4F9" \o
        "A4FAA4FBA4FCA4FDA60CA66FA670A671A672A674A675A676A677A678A679A67AA67BA67CA67DA67FA69CA69D" \o
        "A69EA69FA6F0A6F1A700A701A702A703A704A705A706A707A708A709A70AA70BA70CA70DA70EA70FA710A711" \o
        "A712A713A714A715A716A717A718A719A71AA71BA71CA71DA71EA71FA720A721A770A788A789A78AA7F2A7F3" \o
        "A7F4A7F8A7F9A802A806A80BA825A826A82CA8C4A8C5A8E0A8E1A8E2A8E3A8E4A8E5A8E6A8E7A8E8A8E9A8EA" \o
        "A8EBA8ECA8EDA8EEA8EFA8F0A8F1A8FFA926A927A928A929A92AA92BA92CA92DA947A948A949A94AA94BA94C" \o
        "A94DA94EA94FA950A951A980A981A982A9B3A9B6A9B7A9B8A9B9A9BCA9BDA9CFA9E5A9E6AA29AA2AAA2BAA2C" \o
        "AA2DAA2EAA31AA32AA35AA36AA43AA4CAA70AA7CAAB0AAB2AAB3AAB4AAB7AAB8AABEAABFAAC1AADDAAECAAED" \o
        "AAF3AAF4AAF6AB5BAB5CAB5DAB5EAB5FAB69AB6AAB6BABE5ABE8ABEDFB1EFBB2FBB3FBB4FBB5FBB6FBB7FBB8" \o
        "FBB9FBBAFBBBFBBCFBBDFBBEFBBFFBC0FBC1FBC2FE00FE01FE02FE03FE04FE05FE06FE07FE08FE09FE0AFE0B" \o
        "FE0CFE0DFE0EFE0FFE13FE20FE21FE22FE23FE24FE25FE26FE27FE28FE29FE2AFE2BFE2CFE2DFE2EFE2FFE52" \o
        "FE55FEFFFF07FF0EFF1AFF3EFF40FF70FF9EFF9FFFE3FFF9FFFAFFFB",
        4)) \cup
    Range(CodePoints(
        "101FD102E0103761037710378103791037A1078010781107821078310784107851078710788107891078A107" \o
        "8B1078C1078D1078E1078F107901079110792107931079410795107961079710798107991079A1079B1079C1" \o
        "079D1079E1079F107A0107A1107A2107A3107A4107A5107A6107A7107A8107A9107AA107AB107AC107AD107A" \o
        "E107AF107B0107B2107B3107B4107B5107B6107B7107B8107B9107BA10A0110A0210A0310A0510A0610A0C10" \o
        "A0D10A0E10A0F10A3810A3910A3A10A3F10AE510AE610D2410D2510D2610D2710EAB10EAC10F4610F4710F48" \o
        "10F4910F4A10F4B10F4C10F4D10F4E10F4F10F5010F8210F8310F8410F851100111038110391103A1103B110" \o
        "3C1103D1103E1103F110401104111042110431104411045110461107011073110741107F1108011081110B31" \o
        "10B4110B5110B6110B9110BA110BD110C2110CD1110011101111021112711128111291112A1112B1112D1112" \o
        "E1112F1113011131111321113311134111731118011181111B6111B7111B8111B9111BA111BB111BC111BD11" \o
        "1BE111C9111CA111CB111CC111CF1122F11230112311123411236112371123E112DF112E3112E4112E5112E6" \o
        "112E7112E8112E9112EA11300113011133B1133C11340113661136711368113691136A1136B1136C11370113" \o
        "7111372113731137411438114391143A1143B1143C1143D1143E1143F114421144311444114461145E114B31" \o
        "14B4114B5114B6114B7114B8114BA114BF114C0114C2114C3115B2115B3115B4115B5115BC115BD115BF115C" \o
        "0115DC115DD116331163411635116361163711638116391163A1163D1163F11640116AB116AD116B0116B111" \o
        "6B2116B3116B4116B5116B71171D1171E1171F117221172311724117251172711728117291172A1172B1182F" \o
        "1183011831118321183311834118351183611837118391183A1193B1193C1193E11943119D4119D5119D6119" \o
        "D7119DA119DB119E011A0111A0211A0311A0411A0511A0611A0711A0811A0911A0A11A3311A3411A3511A361" \o
        "1A3711A3811A3B11A3C11A3D11A3E11A4711A5111A5211A5311A5411A5511A5611A5911A5A11A5B11A8A11A8" \o
        "B11A8C11A8D11A8E11A8F11A9011A9111A9211A9311A9411A9511A9611A9811A9911C3011C3111C3211C3311" \o
        "C3411C3511C3611C3811C3911C3A11C3B11C3C11C3D11C3F11C9211C9311C9411C9511C9611C9711C9811C99" \o
        "11C9A11C9B11C9C11C9D11C9E11C9F11CA011CA111CA211CA311CA411CA511CA611CA711CAA11CAB11CAC11C" \o
        "AD11CAE11CAF11CB011CB211CB311CB511CB611D3111D3211D3311D3411D3511D3611D3A11D3C11D3D11D3F1" \o
        "1D4011D4111D4211D4311D4411D4511D4711D9011D9111D9511D9711EF311EF4134301343113432134331343" \o
        "41343513436134371343816AF016AF116AF216AF316AF416B3016B3116B3216B3316B3416B3516B3616B4016" \o
        "B4116B4216B4316F4F16F8F16F9016F9116F9216F9316F9416F9516F9616F9716F9816F9916F9A16F9B16F9C" \o
        "16F9D16F9E16F9F16FE016FE116FE316FE41AFF01AFF11AFF21AFF31AFF51AFF61AFF71AFF81AFF91AFFA1AF" \o
        "FB1AFFD1AFFE1BC9D1BC9E1BCA01BCA11BCA21BCA31CF001CF011CF021CF031CF041CF051CF061CF071CF081" \o
        "CF091CF0A1CF0B1CF0C1CF0D1CF0E1CF0F1CF101CF111CF121CF131CF141CF151CF161CF171CF181CF191CF1" \o
        "A1CF1B1CF1C1CF1D1CF1E1CF1F1CF201CF211CF221CF231CF241CF251CF261CF271CF281CF291CF2A1CF2B1C" \o
        "F2C1CF2D1CF301CF311CF321CF331CF341CF351CF361CF371CF381CF391CF3A1CF3B1CF3C1CF3D1CF3E1CF3F" \o
        "1CF401CF411CF421CF431CF441CF451CF461D1671D1681D1691D1731D1741D1751D1761D1771D1781D1791D1" \o
        "7A1D17B1D17C1D17D1D17E1D17F1D1801D1811D1821D1851D1861D1871D1881D1891D18A1D18B1D1AA1D1AB1" \o
        "D1AC1D1AD1D2421D2431D2441DA001DA011DA021DA031DA041DA051DA061DA071DA081DA091DA0A1DA0B1DA0" \o
        "C1DA0D1DA0E1DA0F1DA101DA111DA121DA131DA141DA151DA161DA171DA181DA191DA1A1DA1B1DA1C1DA1D1D" \o
        "A1E1DA1F1DA201DA211DA221DA231DA241DA251DA261DA271DA281DA291DA2A1DA2B1DA2C1DA2D1DA2E1DA2F" \o
        "1DA301DA311DA321DA331DA341DA351DA361DA3B1DA3C1DA3D1DA3E1DA3F1DA401DA411DA421DA431DA441DA" \o
        "451DA461DA471DA481DA491DA4A1DA4B1DA4C1DA4D1DA4E1DA4F1DA501DA511DA521DA531DA541DA551DA561" \o
        "DA571DA581DA591DA5A1DA5B1DA5C1DA5D1DA5E1DA5F1DA601DA611DA621DA631DA641DA651DA661DA671DA6" \o
        "81DA691DA6A1DA6B1DA6C1DA751DA841DA9B1DA9C1DA9D1DA9E1DA9F1DAA11DAA21DAA31DAA41DAA51DAA61D" \o
        "AA71DAA81DAA91DAAA1DAAB1DAAC1DAAD1DAAE1DAAF1E0001E0011E0021E0031E0041E0051E0061E0081E009" \o
        "1E00A1E00B1E00C1E00D1E00E1E00F1E0101E0111E0121E0131E0141E0151E0161E0171E0181E01B1E01C1E0" \o
        "1D1E01E1E01F1E0201E0211E0231E0241E0261E0271E0281E0291E02A1E1301E1311E1321E1331E1341E1351" \o
        "E1361E1371E1381E1391E13A1E13B1E13C1E13D1E2AE1E2EC1E2ED1E2EE1E2EF1E8D01E8D11E8D21E8D31E8D" \o
        "41E8D51E8D61E9441E9451E9461E9471E9481E9491E94A1E94B1F3FB1F3FC1F3FD1F3FE1F3FFE0001E0020E0" \o
        "021E0022E0023E0024E0025E0026E0027E0028E0029E002AE002BE002CE002DE002EE002FE0030E0031E0032" \o
        "E0033E0034E0035E0036E0037E0038E0039E003AE003BE003CE003DE003EE003FE0040E0041E0042E0043E00" \o
        "44E0045E0046E0047E0048E0049E004AE004BE004CE004DE004EE004FE0050E0051E0052E0053E0054E0055E" \o
        "0056E0057E0058E0059E005AE005BE005CE005DE005EE005FE0060E0061E0062E0063E0064E0065E0066E006" \o
        "7E0068E0069E006AE006BE006CE006DE006EE006FE0070E0071E0072E0073E0074E0075E0076E0077E0078E0" \o
        "079E007AE007BE007CE007DE007EE007FE0100E0101E0102E0103E0104E0105E0106E0107E0108E0109E010A" \o
        "E010BE010CE010DE010EE010FE0110E0111E0112E0113E0114E0115E0116E0117E0118E0119E011AE011BE01" \o
        "1CE011DE011EE011FE0120E0121E0122E0123E0124E0125E0126E0127E0128E0129E012AE012BE012CE012DE" \o
        "012EE012FE0130E0131E0132E0133E0134E0135E0136E0137E0138E0139E013AE013BE013CE013DE013EE013" \o
        "FE0140E0141E0142E0143E0144E0145E0146E0147E0148E0149E014AE014BE014CE014DE014EE014FE0150E0" \o
        "151E0152E0153E0154E0155E0156E0157E0158E0159E015AE015BE015CE015DE015EE015FE0160E0161E0162" \o
        "E0163E0164E0165E0166E0167E0168E0169E016AE016BE016CE016DE016EE016FE0170E0171E0172E0173E01" \o
        "74E0175E0176E0177E0178E0179E017AE017BE017CE017DE017EE017FE0180E0181E0182E0183E0184E0185E" \o
        "0186E0187E0188E0189E018AE018BE018CE018DE018EE018FE0190E0191E0192E0193E0194E0195E0196E019" \o
        "7E0198E0199E019AE019BE019CE019DE019EE019FE01A0E01A1E01A2E01A3E01A4E01A5E01A6E01A7E01A8E0" \o
        "1A9E01AAE01ABE01ACE01ADE01AEE01AFE01B0E01B1E01B2E01B3E01B4E01B5E01B6E01B7E01B8E01B9E01BA" \o
        "E01BBE01BCE01BDE01BEE01BFE01C0E01C1E01C2E01C3E01C4E01C5E01C6E01C7E01C8E01C9E01CAE01CBE01" \o
        "CCE01CDE01CEE01CFE01D0E01D1E01D2E01D3E01D4E01D5E01D6E01D7E01D8E01D9E01DAE01DBE01DCE01DDE" \o
        "01DEE01DFE01E0E01E1E01E2E01E3E01E4E01E5E01E6E01E7E01E8E01E9E01EAE01EBE01ECE01EDE01EEE01E" \o
        "F",
        5))

\* c.lower() of one character, as a text: one character, or two for "U+0130"
LowerChar(c) == IF c \in DOMAIN LowerTable THEN LowerTable[c] ELSE <<c>>

\* c.capitalize() of one character, as a text
UpperChar(c) == IF c \in DOMAIN TitleTable THEN TitleTable[c] ELSE <<c>>

\* The capital sigma at k of s is in final position: a cased character comes
\* before it and none after it, the case-ignorable characters skipped
FinalSigma(s, k) ==
    /\ \E j \in 1..(k - 1) :
          s[j] \in Cased /\ \A m \in (j + 1)..(k - 1) : s[m] \in CaseIgnorable
    /\ ~\E j \in (k + 1)..Len(s) :
          s[j] \in Cased /\ \A m \in (k + 1)..(j - 1) : s[m] \in CaseIgnorable

\* What str.lower writes for the character at k of s
LowerAt(s, k) ==
    IF s[k] = "U+03A3" THEN <<IF FinalSigma(s, k) THEN "U+03C2" ELSE "U+03C3">>
    ELSE LowerChar(s[k])

\* str.lower()
Lower(s) == Join(<< >>, [k \in 1..Len(s) |-> LowerAt(s, k)])

\* str.capitalize(): the first character in title case, the rest in lower case
Capitalize(s) ==
    Join(<< >>, [k \in 1..Len(s) |-> IF k = 1 THEN UpperChar(s[k]) ELSE LowerAt(s, k)])

-----------------------------------------------------------------------------
\* reversed(list)
Reversed(l) == [k \in 1..Len(l) |-> l[Len(l) + 1 - k]]

\* str(n) of an int
Digits == <<"0", "1", "2", "3", "4", "5", "6", "7", "8", "9">>

RECURSIVE NatStr(_)
NatStr(n) == IF n < 10 THEN <<Digits[n + 1]>> ELSE NatStr(n \div 10) \o <<Digits[(n % 10) + 1]>>

IntStr(n) == IF n < 0 THEN <<"-">> \o NatStr(-n) ELSE NatStr(n)

\* Optional[...]: None, or a value
None == [tag |-> "None"]

Some(v) == [tag |-> "Some", val |-> v]

-----------------------------------------------------------------------------
(* DialogueMemory *)

\* self.max_history_length
max_history_length == 5

\* "User: "
UserLabel == <<"U", "s", "e", "r", ":", " ">>

\* "Assistant: "
AssistantLabel == <<"A", "s", "s", "i", "s", "t", "a", "n", "t", ":", " ">>

\* DialogueMemory.__init__
DialogueMemory == [history |-> << >>, recorded |-> << >>]

\* The message add_message builds.  Its timestamp is written and never read by
\* the program; it is left out.
Message(role, content) == [role |-> role, content |-> content]

\* add_message without the truncation of lines 40-41
add_message_unbounded(m, role, content) ==
    [history  |-> Append(m.history, Message(role, content)),
     recorded |-> Append(m.recorded, Message(role, content))]

\* add_message truncating with history[:max_history_length]: the oldest turns kept
add_message_oldest(m, role, content) ==
    LET keep(appended) ==
            IF Len(appended) > max_history_length
            THEN SubSeq(appended, 1, max_history_length)
            ELSE appended
    IN  [history  |-> keep(Append(m.history, Message(role, content))),
         recorded |-> Append(m.recorded, Message(role, content))]

\* DialogueMemory.add_message: append, then keep the last max_history_length
add_message(m, role, content) ==
    LET keep(appended) ==
            IF Len(appended) > max_history_length
            THEN SubSeq(appended, Len(appended) - max_history_length + 1, Len(appended))
            ELSE appended
    IN  [history  |-> keep(Append(m.history, Message(role, content))),
         recorded |-> Append(m.recorded, Message(role, content))]

\* The indices range(len-2, max(-1, len-6), -2) would visit
ContextIndices_skip_newest(h) ==
    LET n    == Len(h)
        stop == IF n - 6 > -1 THEN n - 6 ELSE -1
        RECURSIVE walk(_)
        walk(i) == IF i > stop THEN <<i + 1>> \o walk(i - 2) ELSE << >>
    IN  walk(n - 2)

\* The indices range(len-1, max(-1, len-6), -2) visits, shifted to count from 1,
\* in the order of the visit.
ContextIndices(h) ==
    LET n    == Len(h)
        stop == IF n - 6 > -1 THEN n - 6 ELSE -1       \* max(-1, len-6), exclusive
        RECURSIVE walk(_)
        walk(i) == IF i > stop THEN <<i + 1>> \o walk(i - 2) ELSE << >>
    IN  walk(n - 1)

\* The lines of a step that leaves out the assistant turn before the user turn
ContextStep_user_only(h, i) ==
    IF i >= 1 /\ h[i].role = "user" THEN <<UserLabel \o h[i].content>> ELSE << >>

\* The lines one step of the loop of get_recent_context appends, for index i
\* (counted from 1): the turn at i when it is a user turn, then the turn before
\* it when that is an assistant turn.
ContextStep(h, i) ==
    (IF i >= 1 /\ h[i].role = "user" THEN <<UserLabel \o h[i].content>> ELSE << >>)
    \o
    (IF i - 1 >= 1 /\ h[i - 1].role = "assistant"
     THEN <<AssistantLabel \o h[i - 1].content>> ELSE << >>)

\* context_messages at the end of the loop
RECURSIVE ContextMessagesOver(_, _)
ContextMessagesOver(h, idx) ==
    IF Len(idx) = 0 THEN << >>
    ELSE ContextStep(h, idx[1]) \o ContextMessagesOver(h, Tail(idx))

context_messages(h) == ContextMessagesOver(h, ContextIndices(h))

\* DialogueMemory.get_recent_context
get_recent_context(h) ==
    IF Len(h) = 0 THEN << >>
    ELSE Join(<<"\n", "\n">>, Reversed(context_messages(h)))

\* DialogueMemory.clear
clear(m) == [history |-> << >>, recorded |-> << >>]

-----------------------------------------------------------------------------
(* The intent router: is_weather_query, extract_city, should_call_tool *)

\* weather_keywords: "weather", "temperature", "humidity", "rain", "snow", "sunny",
\* "cloudy", "wind"
weather_keywords ==
  <<
    <<"w", "e", "a", "t", "h", "e", "r">>,
    <<"t", "e", "m", "p", "e", "r", "a", "t", "u", "r", "e">>,
    <<"h", "u", "m", "i", "d", "i", "t", "y">>, <<"r", "a", "i", "n">>, <<"s", "n", "o", "w">>,
    <<"s", "u", "n", "n", "y">>, <<"c", "l", "o", "u", "d", "y">>, <<"w", "i", "n", "d">>
  >>

\* is_weather_query: any(keyword in query.lower() for keyword in weather_keywords)
is_weather_query(q) ==
    \E k \in 1..Len(weather_keywords) : Contains(Lower(q), weather_keywords[k])

\* The words extract_city removes first, in the order of the replace calls:
\* "you", "please", "know"
FillerWords == <<<<"y", "o", "u">>, <<"p", "l", "e", "a", "s", "e">>, <<"k", "n", "o", "w">>>>

\* query.replace("you", "").replace("please", "").replace("know", "").strip()
StripFillers(q) ==
    Strip(Remove(Remove(Remove(q, FillerWords[1]), FillerWords[2]), FillerWords[3]))

\* The tails of the first pattern, (?: now| today|'s) followed by " weather":
\* " now weather", " today weather", "'s weather"
Tier1Tails == <<<<" ", "n", "o", "w", " ", "w", "e", "a", "t", "h", "e", "r">>,
                <<" ", "t", "o", "d", "a", "y", " ", "w", "e", "a", "t", "h", "e", "r">>,
                <<"'", "s", " ", "w", "e", "a", "t", "h", "e", "r">>>>

(* The city alternation of the second pattern of extract_city, in the order of the
   source (duplicates kept: Taizhou, Suzhou, Fuzhou, Yulin occur twice). *)
CityNames ==
  <<
    <<"B", "e", "i", "j", "i", "n", "g">>, <<"S", "h", "a", "n", "g", "h", "a", "i">>,
    <<"G", "u", "a", "n", "g", "z", "h", "o", "u">>, <<"S", "h", "e", "n", "z", "h", "e", "n">>,
    <<"T", "i", "a", "n", "j", "i", "n">>, <<"C", "h", "o", "n", "g", "q", "i", "n", "g">>,
    <<"C", "h", "e", "n", "g", "d", "u">>, <<"H", "a", "n", "g", "z", "h", "o", "u">>,
    <<"W", "u", "h", "a", "n">>, <<"X", "i", "'", "a", "n">>, <<"S", "u", "z", "h", "o", "u">>,
    <<"Z", "h", "e", "n", "g", "z", "h", "o", "u">>, <<"N", "a", "n", "j", "i", "n", "g">>,
    <<"Q", "i", "n", "g", "d", "a", "o">>, <<"S", "h", "e", "n", "y", "a", "n", "g">>,
    <<"D", "a", "l", "i", "a", "n">>, <<"X", "i", "a", "m", "e", "n">>,
    <<"F", "u", "z", "h", "o", "u">>, <<"C", "h", "a", "n", "g", "s", "h", "a">>,
    <<"H", "a", "r", "b", "i", "n">>, <<"J", "i", "n", "a", "n">>,
    <<"C", "h", "a", "n", "g", "c", "h", "u", "n">>,
    <<"S", "h", "i", "j", "i", "a", "z", "h", "u", "a", "n", "g">>, <<"H", "e", "f", "e", "i">>,
    <<"T", "a", "i", "y", "u", "a", "n">>, <<"N", "a", "n", "c", "h", "a", "n", "g">>,
    <<"N", "a", "n", "n", "i", "n", "g">>, <<"K", "u", "n", "m", "i", "n", "g">>,
    <<"G", "u", "i", "y", "a", "n", "g">>, <<"H", "a", "i", "k", "o", "u">>,
    <<"U", "r", "u", "m", "q", "i">>, <<"H", "o", "h", "h", "o", "t">>,
    <<"Y", "i", "n", "c", "h", "u", "a", "n">>, <<"X", "i", "n", "i", "n", "g">>,
    <<"L", "a", "n", "z", "h", "o", "u">>, <<"L", "h", "a", "s", "a">>,
    <<"N", "i", "n", "g", "b", "o">>, <<"W", "e", "n", "z", "h", "o", "u">>,
    <<"W", "u", "x", "i">>, <<"C", "h", "a", "n", "g", "z", "h", "o", "u">>,
    <<"N", "a", "n", "t", "o", "n", "g">>, <<"X", "u", "z", "h", "o", "u">>,
    <<"Y", "a", "n", "g", "z", "h", "o", "u">>, <<"Y", "a", "n", "c", "h", "e", "n", "g">>,
    <<"T", "a", "i", "z", "h", "o", "u">>, <<"Z", "h", "e", "n", "j", "i", "a", "n", "g">>,
    <<"H", "u", "a", "i", "'", "a", "n">>,
    <<"L", "i", "a", "n", "y", "u", "n", "g", "a", "n", "g">>, <<"S", "u", "q", "i", "a", "n">>,
    <<"J", "i", "a", "x", "i", "n", "g">>, <<"H", "u", "z", "h", "o", "u">>,
    <<"S", "h", "a", "o", "x", "i", "n", "g">>, <<"J", "i", "n", "h", "u", "a">>,
    <<"Q", "u", "z", "h", "o", "u">>, <<"Z", "h", "o", "u", "s", "h", "a", "n">>,
    <<"T", "a", "i", "z", "h", "o", "u">>, <<"L", "i", "s", "h", "u", "i">>,
    <<"W", "u", "h", "u">>, <<"M", "a", "'", "a", "n", "s", "h", "a", "n">>,
    <<"A", "n", "q", "i", "n", "g">>, <<"C", "h", "u", "z", "h", "o", "u">>,
    <<"F", "u", "y", "a", "n", "g">>, <<"S", "u", "z", "h", "o", "u">>,
    <<"L", "u", "'", "a", "n">>, <<"B", "o", "z", "h", "o", "u">>,
    <<"C", "h", "i", "z", "h", "o", "u">>, <<"X", "u", "a", "n", "c", "h", "e", "n", "g">>,
    <<"Z", "h", "a", "n", "g", "z", "h", "o", "u">>, <<"N", "a", "n", "p", "i", "n", "g">>,
    <<"S", "a", "n", "m", "i", "n", "g">>, <<"L", "o", "n", "g", "y", "a", "n">>,
    <<"N", "i", "n", "g", "d", "e">>, <<"J", "i", "n", "g", "d", "e", "z", "h", "e", "n">>,
    <<"P", "i", "n", "g", "x", "i", "a", "n", "g">>, <<"J", "i", "u", "j", "i", "a", "n", "g">>,
    <<"X", "i", "n", "y", "u">>, <<"Y", "i", "n", "g", "t", "a", "n">>,
    <<"G", "a", "n", "z", "h", "o", "u">>, <<"J", "i", "'", "a", "n">>,
    <<"Y", "i", "c", "h", "u", "n">>, <<"F", "u", "z", "h", "o", "u">>,
    <<"S", "h", "a", "n", "g", "r", "a", "o">>, <<"Z", "i", "b", "o">>,
    <<"Z", "a", "o", "z", "h", "u", "a", "n", "g">>, <<"D", "o", "n", "g", "y", "i", "n", "g">>,
    <<"Y", "a", "n", "t", "a", "i">>, <<"W", "e", "i", "f", "a", "n", "g">>,
    <<"J", "i", "n", "i", "n", "g">>, <<"T", "a", "i", "'", "a", "n">>,
    <<"W", "e", "i", "h", "a", "i">>, <<"R", "i", "z", "h", "a", "o">>,
    <<"L", "i", "n", "y", "i">>, <<"D", "e", "z", "h", "o", "u">>,
    <<"L", "i", "a", "o", "c", "h", "e", "n", "g">>, <<"B", "i", "n", "z", "h", "o", "u">>,
    <<"H", "e", "z", "e">>, <<"K", "a", "i", "f", "e", "n", "g">>,
    <<"L", "u", "o", "y", "a", "n", "g">>,
    <<"P", "i", "n", "g", "d", "i", "n", "g", "s", "h", "a", "n">>,
    <<"A", "n", "y", "a", "n", "g">>, <<"H", "e", "b", "i">>,
    <<"X", "i", "n", "x", "i", "a", "n", "g">>, <<"J", "i", "a", "o", "z", "u", "o">>,
    <<"P", "u", "y", "a", "n", "g">>, <<"X", "u", "c", "h", "a", "n", "g">>,
    <<"L", "u", "o", "h", "e">>, <<"S", "a", "n", "m", "e", "n", "x", "i", "a">>,
    <<"N", "a", "n", "y", "a", "n", "g">>, <<"S", "h", "a", "n", "g", "q", "i", "u">>,
    <<"X", "i", "n", "y", "a", "n", "g">>, <<"Z", "h", "o", "u", "k", "o", "u">>,
    <<"Z", "h", "u", "m", "a", "d", "i", "a", "n">>, <<"H", "u", "a", "n", "g", "s", "h", "i">>,
    <<"S", "h", "i", "y", "a", "n">>, <<"Y", "i", "c", "h", "a", "n", "g">>,
    <<"X", "i", "a", "n", "g", "y", "a", "n", "g">>, <<"E", "z", "h", "o", "u">>,
    <<"J", "i", "n", "g", "m", "e", "n">>, <<"X", "i", "a", "o", "g", "a", "n">>,
    <<"J", "i", "n", "g", "z", "h", "o", "u">>, <<"H", "u", "a", "n", "g", "g", "a", "n", "g">>,
    <<"X", "i", "a", "n", "n", "i", "n", "g">>, <<"S", "u", "i", "z", "h", "o", "u">>,
    <<"E", "n", "s", "h", "i">>, <<"Z", "h", "u", "z", "h", "o", "u">>,
    <<"X", "i", "a", "n", "g", "t", "a", "n">>, <<"H", "e", "n", "g", "y", "a", "n", "g">>,
    <<"S", "h", "a", "o", "y", "a", "n", "g">>, <<"Y", "u", "e", "y", "a", "n", "g">>,
    <<"C", "h", "a", "n", "g", "d", "e">>,
    <<"Z", "h", "a", "n", "g", "j", "i", "a", "j", "i", "e">>, <<"Y", "i", "y", "a", "n", "g">>,
    <<"C", "h", "e", "n", "z", "h", "o", "u">>, <<"Y", "o", "n", "g", "z", "h", "o", "u">>,
    <<"H", "u", "a", "i", "h", "u", "a">>, <<"L", "o", "u", "d", "i">>,
    <<"X", "i", "a", "n", "g", "x", "i">>, <<"S", "h", "a", "o", "g", "u", "a", "n">>,
    <<"Z", "h", "u", "h", "a", "i">>, <<"S", "h", "a", "n", "t", "o", "u">>,
    <<"F", "o", "s", "h", "a", "n">>, <<"J", "i", "a", "n", "g", "m", "e", "n">>,
    <<"Z", "h", "a", "n", "j", "i", "a", "n", "g">>, <<"M", "a", "o", "m", "i", "n", "g">>,
    <<"Z", "h", "a", "o", "q", "i", "n", "g">>, <<"H", "u", "i", "z", "h", "o", "u">>,
    <<"M", "e", "i", "z", "h", "o", "u">>, <<"S", "h", "a", "n", "w", "e", "i">>,
    <<"H", "e", "y", "u", "a", "n">>, <<"Y", "a", "n", "g", "j", "i", "a", "n", "g">>,
    <<"Q", "i", "n", "g", "y", "u", "a", "n">>, <<"D", "o", "n", "g", "g", "u", "a", "n">>,
    <<"Z", "h", "o", "n", "g", "s", "h", "a", "n">>, <<"C", "h", "a", "o", "z", "h", "o", "u">>,
    <<"J", "i", "e", "y", "a", "n", "g">>, <<"Y", "u", "n", "f", "u">>,
    <<"L", "i", "u", "z", "h", "o", "u">>, <<"G", "u", "i", "l", "i", "n">>,
    <<"W", "u", "z", "h", "o", "u">>, <<"B", "e", "i", "h", "a", "i">>,
    <<"F", "a", "n", "g", "c", "h", "e", "n", "g", "g", "a", "n", "g">>,
    <<"Q", "i", "n", "z", "h", "o", "u">>, <<"G", "u", "i", "g", "a", "n", "g">>,
    <<"Y", "u", "l", "i", "n">>, <<"B", "a", "i", "s", "e">>, <<"H", "e", "z", "h", "o", "u">>,
    <<"H", "e", "c", "h", "i">>, <<"L", "a", "i", "b", "i", "n">>,
    <<"C", "h", "o", "n", "g", "z", "u", "o">>, <<"D", "a", "n", "z", "h", "o", "u">>,
    <<"Z", "i", "g", "o", "n", "g">>, <<"P", "a", "n", "z", "h", "i", "h", "u", "a">>,
    <<"L", "u", "z", "h", "o", "u">>, <<"D", "e", "y", "a", "n", "g">>,
    <<"M", "i", "a", "n", "y", "a", "n", "g">>, <<"G", "u", "a", "n", "g", "y", "u", "a", "n">>,
    <<"S", "u", "i", "n", "i", "n", "g">>, <<"N", "e", "i", "j", "i", "a", "n", "g">>,
    <<"L", "e", "s", "h", "a", "n">>, <<"N", "a", "n", "c", "h", "o", "n", "g">>,
    <<"M", "e", "i", "s", "h", "a", "n">>, <<"Y", "i", "b", "i", "n">>,
    <<"G", "u", "a", "n", "g", "'", "a", "n">>, <<"D", "a", "z", "h", "o", "u">>,
    <<"Y", "a", "'", "a", "n">>, <<"B", "a", "z", "h", "o", "n", "g">>,
    <<"Z", "i", "y", "a", "n", "g">>, <<"A", "b", "a">>, <<"G", "a", "n", "z", "i">>,
    <<"L", "i", "a", "n", "g", "s", "h", "a", "n">>,
    <<"L", "i", "u", "p", "a", "n", "s", "h", "u", "i">>, <<"Z", "u", "n", "y", "i">>,
    <<"A", "n", "s", "h", "u", "n">>, <<"B", "i", "j", "i", "e">>,
    <<"T", "o", "n", "g", "r", "e", "n">>,
    <<"Q", "i", "a", "n", "d", "o", "n", "g", "n", "a", "n">>,
    <<"Q", "i", "a", "n", "n", "a", "n">>, <<"Q", "i", "a", "n", "x", "i", "n", "a", "n">>,
    <<"Q", "u", "j", "i", "n", "g">>, <<"Y", "u", "x", "i">>,
    <<"B", "a", "o", "s", "h", "a", "n">>, <<"Z", "h", "a", "o", "t", "o", "n", "g">>,
    <<"L", "i", "j", "i", "a", "n", "g">>, <<"P", "u", "e", "r">>,
    <<"L", "i", "n", "c", "a", "n", "g">>, <<"C", "h", "u", "x", "i", "o", "n", "g">>,
    <<"H", "o", "n", "g", "h", "e">>, <<"W", "e", "n", "s", "h", "a", "n">>,
    <<"X", "i", "s", "h", "u", "a", "n", "g", "b", "a", "n", "n", "a">>, <<"D", "a", "l", "i">>,
    <<"D", "e", "h", "o", "n", "g">>, <<"N", "u", "j", "i", "a", "n", "g">>,
    <<"D", "i", "q", "i", "n", "g">>, <<"Q", "a", "m", "d", "o">>,
    <<"N", "y", "i", "n", "g", "c", "h", "i">>, <<"S", "h", "a", "n", "n", "a", "n">>,
    <<"N", "a", "g", "q", "u">>, <<"A", "l", "i">>,
    <<"T", "o", "n", "g", "c", "h", "u", "a", "n">>, <<"B", "a", "o", "j", "i">>,
    <<"X", "i", "a", "n", "y", "a", "n", "g">>, <<"W", "e", "i", "n", "a", "n">>,
    <<"Y", "a", "n", "a", "n">>, <<"H", "a", "n", "z", "h", "o", "n", "g">>,
    <<"Y", "u", "l", "i", "n">>, <<"A", "n", "k", "a", "n", "g">>,
    <<"S", "h", "a", "n", "g", "l", "u", "o">>, <<"J", "i", "a", "y", "u", "g", "u", "a", "n">>,
    <<"J", "i", "n", "c", "h", "a", "n", "g">>, <<"B", "a", "i", "y", "i", "n">>,
    <<"T", "i", "a", "n", "s", "h", "u", "i">>, <<"W", "u", "w", "e", "i">>,
    <<"Z", "h", "a", "n", "g", "y", "e">>, <<"P", "i", "n", "g", "l", "i", "a", "n", "g">>,
    <<"J", "i", "u", "q", "u", "a", "n">>, <<"Q", "i", "n", "g", "y", "a", "n", "g">>,
    <<"D", "i", "n", "g", "x", "i">>, <<"L", "o", "n", "g", "n", "a", "n">>,
    <<"L", "i", "n", "x", "i", "a">>, <<"G", "a", "n", "n", "a", "n">>,
    <<"H", "a", "i", "d", "o", "n", "g">>, <<"H", "a", "i", "b", "e", "i">>,
    <<"H", "u", "a", "n", "a", "n">>, <<"H", "a", "i", "n", "a", "n">>,
    <<"G", "u", "o", "l", "u", "o">>, <<"Y", "u", "s", "h", "u">>, <<"H", "a", "i", "x", "i">>,
    <<"S", "h", "i", "z", "u", "i", "s", "h", "a", "n">>, <<"W", "u", "z", "h", "o", "n", "g">>,
    <<"G", "u", "y", "u", "a", "n">>, <<"Z", "h", "o", "n", "g", "w", "e", "i">>,
    <<"K", "a", "r", "a", "m", "a", "y">>, <<"T", "u", "r", "p", "a", "n">>,
    <<"H", "a", "m", "i">>, <<"C", "h", "a", "n", "g", "j", "i">>,
    <<"B", "o", "r", "t", "a", "l", "a">>, <<"B", "a", "y", "i", "n", "g", "o", "l", "i", "n">>,
    <<"A", "k", "s", "u">>, <<"K", "i", "z", "i", "l", "s", "u">>,
    <<"K", "a", "s", "h", "g", "a", "r">>, <<"H", "o", "t", "a", "n">>, <<"I", "l", "i">>,
    <<"T", "a", "c", "h", "e", "n", "g">>, <<"A", "l", "t", "a", "y">>,
    <<"S", "h", "i", "h", "e", "z", "i">>, <<"A", "r", "a", "l">>,
    <<"T", "u", "m", "x", "u", "k">>, <<"W", "u", "j", "i", "a", "q", "u">>,
    <<"B", "e", "i", "t", "u", "n">>, <<"T", "i", "e", "m", "e", "n", "g", "u", "a", "n">>,
    <<"S", "h", "u", "a", "n", "g", "h", "e">>, <<"K", "e", "k", "e", "d", "a", "l", "a">>,
    <<"K", "u", "n", "y", "u">>, <<"H", "u", "y", "a", "n", "g", "h", "e">>,
    <<"X", "i", "n", "x", "i", "n", "g">>
  >>

(* The alternation of the third pattern of extract_city (provincial regions). *)
ProvinceNames ==
  <<
    <<"B", "e", "i", "j", "i", "n", "g">>, <<"T", "i", "a", "n", "j", "i", "n">>,
    <<"S", "h", "a", "n", "g", "h", "a", "i">>, <<"C", "h", "o", "n", "g", "q", "i", "n", "g">>,
    <<"H", "e", "b", "e", "i">>, <<"S", "h", "a", "n", "x", "i">>,
    <<"L", "i", "a", "o", "n", "i", "n", "g">>, <<"J", "i", "l", "i", "n">>,
    <<"H", "e", "i", "l", "o", "n", "g", "j", "i", "a", "n", "g">>,
    <<"J", "i", "a", "n", "g", "s", "u">>, <<"Z", "h", "e", "j", "i", "a", "n", "g">>,
    <<"A", "n", "h", "u", "i">>, <<"F", "u", "j", "i", "a", "n">>,
    <<"J", "i", "a", "n", "g", "x", "i">>, <<"S", "h", "a", "n", "d", "o", "n", "g">>,
    <<"H", "e", "n", "a", "n">>, <<"H", "u", "b", "e", "i">>, <<"H", "u", "n", "a", "n">>,
    <<"G", "u", "a", "n", "g", "d", "o", "n", "g">>, <<"H", "a", "i", "n", "a", "n">>,
    <<"S", "i", "c", "h", "u", "a", "n">>, <<"G", "u", "i", "z", "h", "o", "u">>,
    <<"Y", "u", "n", "n", "a", "n">>, <<"S", "h", "a", "a", "n", "x", "i">>,
    <<"G", "a", "n", "s", "u">>, <<"Q", "i", "n", "g", "h", "a", "i">>,
    <<"T", "a", "i", "w", "a", "n">>,
    <<"I", "n", "n", "e", "r", " ", "M", "o", "n", "g", "o", "l", "i", "a">>,
    <<"G", "u", "a", "n", "g", "x", "i">>, <<"T", "i", "b", "e", "t">>,
    <<"N", "i", "n", "g", "x", "i", "a">>, <<"X", "i", "n", "j", "i", "a", "n", "g">>,
    <<"H", "o", "n", "g", " ", "K", "o", "n", "g">>, <<"M", "a", "c", "a", "u">>
  >>


\* The optional character after a city, [city province]
CitySuffixChars == {"c", "i", "t", "y", " ", "p", "r", "o", "v", "n", "e"}

\* The optional character after a region, [ province autonomous region]
ProvinceSuffixChars == {" ", "p", "r", "o", "v", "i", "n", "c", "e", "a", "u", "t", "m", "s", "g"}

\* A tail of the first pattern starts at j
Tier1TailAt(q, j) == \E k \in 1..Len(Tier1Tails) : StartsAt(q, j, Tier1Tails[k])

\* re.search(r"(.+?)(?: now| today|'s) weather", q): group(1), or None.  The
\* search takes the leftmost start i; the lazy group then ends before the first
\* tail after i that no line break separates from i ("." matches no "\n").
Tier1Match(q) ==
    LET ends(tails, breaks, i) ==
            {j \in tails : j > i /\ \A k \in breaks : k < i \/ k >= j}
        cut(tails, breaks, i) == Some(SubSeq(q, i, Min(ends(tails, breaks, i)) - 1))
        from(tails, breaks, starts) ==
            IF starts = {} THEN None ELSE cut(tails, breaks, Min(starts))
        scan(tails, breaks) ==
            from(tails, breaks, {i \in 1..Len(q) : ends(tails, breaks, i) # {}})
    IN  scan({j \in 2..Len(q) : Tier1TailAt(q, j)}, {k \in 1..Len(q) : q[k] = "\n"})

\* re.IGNORECASE on the patterns of extract_city, whose letters are ASCII: a
\* character of the text is lower-cased and compared with the lower-cased
\* character of the pattern, and re adds the pairs that lower-casing misses.
\* So A-Z and a-z pair up, the dotted capital I "U+0130" and the dotless i
\* "U+0131" match i, the long s "U+017F" matches s, the Kelvin sign "U+212A"
\* matches k.
IgnoreCase(c) ==
    CASE c = "U+0131" -> "i"
      [] c = "U+017F" -> "s"
      [] OTHER        -> LowerChar(c)[1]

\* An alternation of names under re.IGNORECASE: the names as they are compared,
\* and for each character the places in the alternation of the names that
\* start with it
Alternation(names) ==
    LET lnames == [k \in 1..Len(names) |->
                      [j \in 1..Len(names[k]) |-> IgnoreCase(names[k][j])]]
    IN  [names  |-> lnames,
         places |-> [c \in {lnames[k][1] : k \in 1..Len(names)} |->
                        {k \in 1..Len(names) : lnames[k][1] = c}]]

CityAlternation == Alternation(CityNames)

ProvinceAlternation == Alternation(ProvinceNames)

\* re.search(r"((?:n1|n2|...)[suffix]?)", q, re.IGNORECASE): group(1), or None.
\* The leftmost position where a name matches wins, at that position the first
\* name of the alternation that matches, and the optional class takes the next
\* character when it is in the class (the flag applies to the class too).
\* group(1) is the text as typed.
NameMatch(q, alt, suffix) ==
    LET at(lq, i)      == IF lq[i] \in DOMAIN alt.places
                          THEN {k \in alt.places[lq[i]] : StartsAt(lq, i, alt.names[k])}
                          ELSE {}
        take(lq, i, e) == Some(SubSeq(q, i, IF e + 1 <= Len(q) /\ lq[e + 1] \in suffix
                                            THEN e + 1 ELSE e))
        name(lq, i, k) == take(lq, i, i + Len(alt.names[k]) - 1)
        pick(lq, i)    == name(lq, i, Min(at(lq, i)))
        from(lq, starts) == IF starts = {} THEN None ELSE pick(lq, Min(starts))
        scan(lq)       == from(lq, {i \in 1..Len(q) : at(lq, i) # {}})
    IN  scan([k \in 1..Len(q) |-> IgnoreCase(q[k])])

\* MCPClient.extract_city
extract_city(utterance) ==
    LET found(m) == Some(Strip(m.val))
        third(m3) == IF m3 # None THEN found(m3) ELSE None
        second(q, m2) ==
            IF m2 # None THEN found(m2)
            ELSE third(NameMatch(q, ProvinceAlternation, ProvinceSuffixChars))
        first(q, m1) ==
            IF m1 # None THEN found(m1)
            ELSE second(q, NameMatch(q, CityAlternation, CitySuffixChars))
        search(q) == first(q, Tier1Match(q))
    IN  search(StripFillers(utterance))

\* The outcome of a chat.completions.create call: it raises, or it returns a
\* message with this content.
Raises == [tag |-> "Raises"]

Content(text) == [tag |-> "Content", text |-> text]

\* The markers of a negative decision, tested on decision.lower():
\* "no", "not needed", "none"
NegativeMarkers == <<<<"n", "o">>,
                     <<"n", "o", "t", " ", "n", "e", "e", "d", "e", "d">>,
                     <<"n", "o", "n", "e">>>>

IsNegative(d) ==
    \E k \in 1..Len(NegativeMarkers) : Contains(Lower(d), NegativeMarkers[k])

\* "city"
CityLabel == <<"c", "i", "t", "y">>

\* The class after the label, [:...]: the colon and the three code points the
\* source file holds after it
CityLabelColons == {":", "U+00EF", "U+00BC", "U+0161"}

\* re.search(r"city[:...]\s*(\S+)", decision): group(1), or None
LabeledCity(d) ==
    LET first(i)   == CHOOSE j \in (i + 5)..(Len(d) + 1) :
                          /\ j = Len(d) + 1 \/ d[j] \notin Whitespace
                          /\ \A k \in (i + 5)..(j - 1) : d[k] \in Whitespace
        ok(i)      == /\ StartsAt(d, i, CityLabel)
                      /\ i + 4 <= Len(d)
                      /\ d[i + 4] \in CityLabelColons
                      /\ first(i) <= Len(d)
        stop(j)    == CHOOSE e \in j..Len(d) :
                          /\ \A k \in j..e : d[k] \notin Whitespace
                          /\ e = Len(d) \/ d[e + 1] \in Whitespace
        group(j)   == Some(SubSeq(d, j, stop(j)))
        from(starts) == IF starts = {} THEN None ELSE group(first(Min(starts)))
    IN  from({i \in 1..Len(d) : ok(i)})

\* (city is not None, city)
Located(q) ==
    LET pair(city) == <<city # None, city>>
    IN  pair(extract_city(q))

\* The reading of the decision looking for the labeled city before the
\* negative markers
ReadDecision_label_first(q, content) ==
    LET denied(d)  == IF IsNegative(d) THEN <<FALSE, None>> ELSE Located(q)
        read(d, m) == IF m # None THEN <<TRUE, m>> ELSE denied(d)
        strip(d)   == read(d, LabeledCity(d))
    IN  strip(Strip(content))

\* The reading of the decision trying the utterance before the labeled city
ReadDecision_location_first(q, content) ==
    LET labeled(m) == IF m # None THEN <<TRUE, m>> ELSE <<FALSE, None>>
        located(d) == IF Located(q)[1] THEN Located(q) ELSE labeled(LabeledCity(d))
        read(d)    == IF IsNegative(d) THEN <<FALSE, None>> ELSE located(d)
    IN  read(Strip(content))

\* MCPClient.should_call_tool, lines 193-206: the reading of the decision
ReadDecision(q, content) ==
    LET labeled(m) == IF m # None THEN <<TRUE, m>> ELSE Located(q)
        read(d)    == IF IsNegative(d) THEN <<FALSE, None>> ELSE labeled(LabeledCity(d))
    IN  read(Strip(content))

\* Whether should_call_tool makes the classification call for this query
NeedsClassification(q) == ~is_weather_query(q)

\* should_call_tool falling back on the location match when the
\* classification call raises
should_call_tool_fail_open(q, completion) ==
    IF ~NeedsClassification(q) THEN Located(q)
    ELSE IF completion = Raises THEN Located(q)
    ELSE ReadDecision(q, completion.text)

\* MCPClient.should_call_tool; completion is the outcome of the classification
\* call, read only when the call is made
should_call_tool(q, completion) ==
    IF ~NeedsClassification(q) THEN Located(q)
    ELSE IF completion = Raises THEN <<FALSE, None>>
    ELSE ReadDecision(q, completion.text)

-----------------------------------------------------------------------------
(* JSON values as Python holds them after json.loads, each with its type:     *)
(* a dict is a function from its keys to values, a list a sequence of values, *)
(* a str a character sequence, a number an integer.                           *)

JNull == [t |-> "null"]

JBool(b) == [t |-> "bool", v |-> b]

JNum(n) == [t |-> "num", v |-> n]

JStr(s) == [t |-> "str", v |-> s]

JList(l) == [t |-> "list", v |-> l]

JDict(d) == [t |-> "dict", v |-> d]

\* The result of an expression that may raise
Ok(v) == [tag |-> "Ok", val |-> v]

Err(e) == [tag |-> "Err", exc |-> e]

\* bool(v) of a JSON value
Truthy(v) ==
    CASE v.t = "null" -> FALSE
      [] v.t = "bool" -> v.v
      [] v.t = "num"  -> v.v # 0
      [] v.t = "str"  -> Len(v.v) > 0
      [] v.t = "list" -> Len(v.v) > 0
      [] v.t = "dict" -> DOMAIN v.v # {}

\* The characters of a key
KeyChars(key) ==
    CASE key = "error"          -> <<"e", "r", "r", "o", "r">>
      [] key = "formatted_text" -> <<"f", "o", "r", "m", "a", "t", "t", "e", "d", "_", "t", "e", "x", "t">>

\* key in v: membership of a dict's keys, of a list's elements, a substring
\* of a str; any other value raises TypeError
In(key, v) ==
    CASE v.t = "dict" -> Ok(key \in DOMAIN v.v)
      [] v.t = "list" -> Ok(\E k \in 1..Len(v.v) :
                               v.v[k].t = "str" /\ v.v[k].v = KeyChars(key))
      [] v.t = "str"  -> Ok(Contains(v.v, KeyChars(key)))
      [] OTHER        -> Err("TypeError")

\* v[key] for a str key
Item(v, key) ==
    CASE v.t = "dict" -> IF key \in DOMAIN v.v THEN Ok(v.v[key]) ELSE Err("KeyError")
      [] OTHER        -> Err("TypeError")

\* v[0]
First(v) ==
    CASE v.t = "list" -> IF Len(v.v) > 0 THEN Ok(v.v[1]) ELSE Err("IndexError")
      [] v.t = "str"  -> IF Len(v.v) > 0 THEN Ok(JStr(<<v.v[1]>>)) ELSE Err("IndexError")
      [] v.t = "dict" -> Err("KeyError")
      [] OTHER        -> Err("TypeError")

\* v[p1][p2]...: each step of path is a key, or "[0]" for the index 0
RECURSIVE Lookup(_, _)
Lookup(v, path) ==
    LET next(r) == IF r.tag = "Err" THEN r ELSE Lookup(r.val, Tail(path))
    IN  IF Len(path) = 0 THEN Ok(v)
        ELSE next(IF path[1] = "[0]" THEN First(v) ELSE Item(v, path[1]))

\* v.get(key, default); a value that is no dict has no get
Get(v, key, default) ==
    IF v.t = "dict" THEN Ok(IF key \in DOMAIN v.v THEN v.v[key] ELSE default)
    ELSE Err("AttributeError")

\* str(v) as an f-string renders it.  Numbers are integers in this model, and
\* the payloads it draws hold a number, a str or null wherever one is rendered.
PyStr(v) ==
    CASE v.t = "str"  -> v.v
      [] v.t = "num"  -> IntStr(v.v)
      [] v.t = "null" -> <<"N", "o", "n", "e">>
      [] v.t = "bool" -> IF v.v THEN <<"T", "r", "u", "e">> ELSE <<"F", "a", "l", "s", "e">>

\* The values Python orders against an int: numbers, and bools as 1 and 0; a
\* comparison with anything else raises TypeError
IsNumber(v) == v.t \in {"num", "bool"}

NumOf(v) == IF v.t = "bool" THEN (IF v.v THEN 1 ELSE 0) ELSE v.v

-----------------------------------------------------------------------------
(* A text handed to json.loads, as json.loads reads it.  It is the JSON        *)
(* encoding of a value, and json.loads returns the value; or it is no JSON,    *)
(* and json.loads raises JSONDecodeError with a message that says where it     *)
(* stopped (then the characters are what matters); or it is JSON nested deeper *)
(* than the recursion limit of the interpreter allows at the call, such as     *)
(* '[' * 20000 + ']' * 20000, and json.loads raises RecursionError; or it is   *)
(* JSON that holds an integer of more than 4300 digits, such as '1' * 4301,    *)
(* and json.loads raises the ValueError of int().                              *)

\* str(e) of the JSONDecodeError for a text that starts with no JSON value
\*   "Expecting value: line 1 column 1 (char 0)"
ExpectingValue ==
  <<
    "E", "x", "p", "e", "c", "t", "i", "n", "g", " ", "v", "a", "l", "u", "e", ":", " ", "l", "i",
    "n", "e", " ", "1", " ", "c", "o", "l", "u", "m", "n", " ", "1", " ", "(", "c", "h", "a", "r",
    " ", "0", ")"
  >>

\* str(e) of the RecursionError for a text of nested arrays
\*   "maximum recursion depth exceeded while decoding a JSON array from a unicode string"
RecursionExceeded ==
  <<
    "m", "a", "x", "i", "m", "u", "m", " ", "r", "e", "c", "u", "r", "s", "i", "o", "n", " ", "d",
    "e", "p", "t", "h", " ", "e", "x", "c", "e", "e", "d", "e", "d", " ", "w", "h", "i", "l", "e",
    " ", "d", "e", "c", "o", "d", "i", "n", "g", " ", "a", " ", "J", "S", "O", "N", " ", "a", "r",
    "r", "a", "y", " ", "f", "r", "o", "m", " ", "a", " ", "u", "n", "i", "c", "o", "d", "e", " ",
    "s", "t", "r", "i", "n", "g"
  >>

\* str(e) of the ValueError for a text that holds an integer of 4301 digits
\*   "Exceeds the limit (4300 digits) for integer string conversion: value has 4301
\*    digits; use sys.set_int_max_str_digits() to increase the limit"
DigitsExceeded ==
  <<
    "E", "x", "c", "e", "e", "d", "s", " ", "t", "h", "e", " ", "l", "i", "m", "i", "t", " ",
    "(", "4", "3", "0", "0", " ", "d", "i", "g", "i", "t", "s", ")", " ", "f", "o", "r", " ",
    "i", "n", "t", "e", "g", "e", "r", " ", "s", "t", "r", "i", "n", "g", " ", "c", "o", "n",
    "v", "e", "r", "s", "i", "o", "n", ":", " ", "v", "a", "l", "u", "e", " ", "h", "a", "s",
    " ", "4", "3", "0", "1", " ", "d", "i", "g", "i", "t", "s", ";", " ", "u", "s", "e", " ",
    "s", "y", "s", ".", "s", "e", "t", "_", "i", "n", "t", "_", "m", "a", "x", "_", "s", "t",
    "r", "_", "d", "i", "g", "i", "t", "s", "(", ")", " ", "t", "o", " ", "i", "n", "c", "r",
    "e", "a", "s", "e", " ", "t", "h", "e", " ", "l", "i", "m", "i", "t"
  >>

JsonText(v) == [json |-> TRUE, val |-> v]

\* A text that starts with no JSON value: the empty text, a report, a sentence
PlainText(s) == [json |-> FALSE, chars |-> s, why |-> ExpectingValue]

\* A text json.loads gives up elsewhere, with the str(e) of its JSONDecodeError
BrokenText(s, why) == [json |-> FALSE, chars |-> s, why |-> why]

\* A text nested too deep, with the str(e) of the RecursionError
DeepText(why) == [json |-> FALSE, exc |-> "RecursionError", why |-> why]

\* A text that holds an integer of more digits than int() converts (4300), with
\* the str(e) of the ValueError
LongIntegerText(why) == [json |-> FALSE, exc |-> "ValueError", why |-> why]

\* json.loads(text)
json_loads(text) ==
    IF text.json THEN Ok(text.val)
    ELSE IF "exc" \in DOMAIN text THEN Err(text.exc)
    ELSE Err("JSONDecodeError")

\* What session.call_tool gives: it raises, it gives no result or a result with
\* no content, a result whose first content item has this text, or a result
\* whose first content item has no text (an image, an embedded resource).
ToolRaises == [tag |-> "Raises"]

ToolEmpty == [tag |-> "Empty"]

ToolOther == [tag |-> "Other"]

ToolText(text) == [tag |-> "Text", text |-> text]

\* What call_weather_tool returns: Python's None, or a value
PyNone == [tag |-> "PyNone"]

Value(v) == [tag |-> "Value", val |-> v]

\* {"formatted_text": text}
Preformatted(chars) == JDict([formatted_text |-> JStr(chars)])

\* The reading of the text that leaves out the tests on the parsed data
ReadToolText_untested(text) ==
    LET read(parsed) ==
            IF parsed.tag = "Ok" THEN [out |-> Value(parsed.val), events |-> << >>]
            ELSE IF parsed.exc = "JSONDecodeError"
            THEN [out |-> Value(Preformatted(text.chars)), events |-> <<"JSONDecodeError">>]
            ELSE [out |-> PyNone, events |-> <<parsed.exc>>]
    IN  read(json_loads(text))

\* The reading of the text that returns the parsed data when the test for the
\* error marker raises
ReadToolText_raise_ignored(text) ==
    LET refused(data) ==
            IF data.t = "dict" THEN [out |-> PyNone, events |-> <<"ErrorResult">>]
            ELSE [out |-> PyNone, events |-> <<"AttributeError">>]
        tested(data, has) ==
            IF has.tag = "Err" THEN [out |-> Value(data), events |-> <<has.exc>>]
            ELSE IF has.val THEN refused(data)
            ELSE [out |-> Value(data), events |-> << >>]
        loaded(data) ==
            IF ~Truthy(data) THEN refused(data) ELSE tested(data, In("error", data))
        \* JSONDecodeError is caught at line 232, anything else at line 240
        read(parsed) ==
            IF parsed.tag = "Ok" THEN loaded(parsed.val)
            ELSE IF parsed.exc = "JSONDecodeError"
            THEN [out |-> Value(Preformatted(text.chars)), events |-> <<"JSONDecodeError">>]
            ELSE [out |-> PyNone, events |-> <<parsed.exc>>]
    IN  read(json_loads(text))

\* call_weather_tool, lines 227-242: the reading of the text of the result.
\* out is what the function returns, events what it went through on the way.
ReadToolText(text) ==
    LET \* the error branch: data.get is called, and None returned
        refused(data) ==
            IF data.t = "dict" THEN [out |-> PyNone, events |-> <<"ErrorResult">>]
            ELSE [out |-> PyNone, events |-> <<"AttributeError">>]
        tested(data, has) ==
            IF has.tag = "Err" THEN [out |-> PyNone, events |-> <<has.exc>>]
            ELSE IF has.val THEN refused(data)
            ELSE [out |-> Value(data), events |-> << >>]
        loaded(data) ==
            IF ~Truthy(data) THEN refused(data) ELSE tested(data, In("error", data))
        \* JSONDecodeError is caught at line 232, anything else at line 240
        read(parsed) ==
            IF parsed.tag = "Ok" THEN loaded(parsed.val)
            ELSE IF parsed.exc = "JSONDecodeError"
            THEN [out |-> Value(Preformatted(text.chars)), events |-> <<"JSONDecodeError">>]
            ELSE [out |-> PyNone, events |-> <<parsed.exc>>]
    IN  read(json_loads(text))

\* MCPClient.call_weather_tool; outcome is what session.call_tool gives, read
\* only when the call is made
call_weather_tool(available, outcome) ==
    IF ~available THEN [out |-> PyNone, events |-> <<"ToolUnavailable">>]
    ELSE IF outcome = ToolRaises THEN [out |-> PyNone, events |-> <<"TransportError">>]
    ELSE IF outcome = ToolEmpty THEN [out |-> PyNone, events |-> <<"EmptyResult">>]
    ELSE IF outcome = ToolOther THEN [out |-> PyNone, events |-> <<"AttributeError">>]
    ELSE ReadToolText(outcome.text)

-----------------------------------------------------------------------------
(* The reply composers: get_weather_suitability, the report of process_query, *)
(* get_local_model_response                                                   *)

\* An f-string: the literal pieces with the values between them
RECURSIVE Fill(_, _)
Fill(pieces, vals) ==
    IF Len(vals) = 0 THEN pieces[1]
    ELSE pieces[1] \o vals[1] \o Fill(Tail(pieces), Tail(vals))

\* fallback_response, around {city}
\*   "Sorry, I can't get weather information for "
\*   " right now. You can check weather apps later for updated information."
FallbackTemplate ==
  <<
    <<
      "S", "o", "r", "r", "y", ",", " ", "I", " ", "c", "a", "n", "'", "t", " ", "g", "e", "t",
      " ", "w", "e", "a", "t", "h", "e", "r", " ", "i", "n", "f", "o", "r", "m", "a", "t", "i",
      "o", "n", " ", "f", "o", "r", " "
    >>,
    <<
      " ", "r", "i", "g", "h", "t", " ", "n", "o", "w", ".", " ", "Y", "o", "u", " ", "c", "a",
      "n", " ", "c", "h", "e", "c", "k", " ", "w", "e", "a", "t", "h", "e", "r", " ", "a", "p",
      "p", "s", " ", "l", "a", "t", "e", "r", " ", "f", "o", "r", " ", "u", "p", "d", "a", "t",
      "e", "d", " ", "i", "n", "f", "o", "r", "m", "a", "t", "i", "o", "n", "."
    >>
  >>

\* error_response, the reply of the handler of process_query
\*   "Sorry, an error occurred while processing your request. Please try again later."
error_response ==
  <<
    "S", "o", "r", "r", "y", ",", " ", "a", "n", " ", "e", "r", "r", "o", "r", " ", "o", "c", "c",
    "u", "r", "r", "e", "d", " ", "w", "h", "i", "l", "e", " ", "p", "r", "o", "c", "e", "s", "s",
    "i", "n", "g", " ", "y", "o", "u", "r", " ", "r", "e", "q", "u", "e", "s", "t", ".", " ", "P",
    "l", "e", "a", "s", "e", " ", "t", "r", "y", " ", "a", "g", "a", "i", "n", " ", "l", "a", "t",
    "e", "r", "."
  >>

\* what get_local_model_response returns when the completion call fails
\*   "Sorry, I can't process this request right now. Please try again later."
LocalModelApology ==
  <<
    "S", "o", "r", "r", "y", ",", " ", "I", " ", "c", "a", "n", "'", "t", " ", "p", "r", "o", "c",
    "e", "s", "s", " ", "t", "h", "i", "s", " ", "r", "e", "q", "u", "e", "s", "t", " ", "r", "i",
    "g", "h", "t", " ", "n", "o", "w", ".", " ", "P", "l", "e", "a", "s", "e", " ", "t", "r", "y",
    " ", "a", "g", "a", "i", "n", " ", "l", "a", "t", "e", "r", "."
  >>

\* the cues of a suitability query, tested on query.lower(): "go out", "outdoor"
SuitabilityCues ==
  <<
    <<"g", "o", " ", "o", "u", "t">>, <<"o", "u", "t", "d", "o", "o", "r">>
  >>

\* the default of weather_data.get("name", ...) in get_weather_suitability
\*   "the area"
TheArea == <<"t", "h", "e", " ", "a", "r", "e", "a">>

\* the values suitability takes: "suitable", "not very suitable", "not suitable"
SuitabilityLevels ==
  <<
    <<"s", "u", "i", "t", "a", "b", "l", "e">>,
    <<"n", "o", "t", " ", "v", "e", "r", "y", " ", "s", "u", "i", "t", "a", "b", "l", "e">>,
    <<"n", "o", "t", " ", "s", "u", "i", "t", "a", "b", "l", "e">>
  >>

\* the reasons, in the order of the source: "high temperature", "extremely high temperature", "low temperature", "extremely low temperature", "precipitation", "strong wind", "very strong wind", "poor air quality", "bad air quality"
Reasons ==
  <<
    <<"h", "i", "g", "h", " ", "t", "e", "m", "p", "e", "r", "a", "t", "u", "r", "e">>,
    <<"e", "x", "t", "r", "e", "m", "e", "l", "y", " ", "h", "i", "g", "h", " ", "t", "e", "m", "p", "e", "r", "a", "t", "u", "r", "e">>,
    <<"l", "o", "w", " ", "t", "e", "m", "p", "e", "r", "a", "t", "u", "r", "e">>,
    <<"e", "x", "t", "r", "e", "m", "e", "l", "y", " ", "l", "o", "w", " ", "t", "e", "m", "p", "e", "r", "a", "t", "u", "r", "e">>,
    <<"p", "r", "e", "c", "i", "p", "i", "t", "a", "t", "i", "o", "n">>,
    <<"s", "t", "r", "o", "n", "g", " ", "w", "i", "n", "d">>,
    <<"v", "e", "r", "y", " ", "s", "t", "r", "o", "n", "g", " ", "w", "i", "n", "d">>,
    <<"p", "o", "o", "r", " ", "a", "i", "r", " ", "q", "u", "a", "l", "i", "t", "y">>,
    <<"b", "a", "d", " ", "a", "i", "r", " ", "q", "u", "a", "l", "i", "t", "y">>
  >>

\* bad_weather_keywords: "rain", "thunderstorm", "drizzle", "snow", "shower"
bad_weather_keywords ==
  <<
    <<"r", "a", "i", "n">>, <<"t", "h", "u", "n", "d", "e", "r", "s", "t", "o", "r", "m">>,
    <<"d", "r", "i", "z", "z", "l", "e">>, <<"s", "n", "o", "w">>, <<"s", "h", "o", "w", "e", "r">>
  >>

\* the response of get_weather_suitability around {city}, {temp}, {weather_desc.capitalize()}, {humidity}, {wind_speed}
\*   "Based on current weather in "
\*   ":\n- Temperature: "
\*   "<U+00C2><U+00B0>C\n- Weather: "
\*   "\n- Humidity: "
\*   "%\n- Wind speed: "
\*   " m/s\n\n"
SuitabilityTemplate ==
  <<
    <<
      "B", "a", "s", "e", "d", " ", "o", "n", " ", "c", "u", "r", "r", "e", "n", "t", " ", "w",
      "e", "a", "t", "h", "e", "r", " ", "i", "n", " "
    >>,
    <<
      ":", "\n", "-", " ", "T", "e", "m", "p", "e", "r", "a", "t", "u", "r", "e", ":", " "
    >>,
    <<
      "U+00C2", "U+00B0", "C", "\n", "-", " ", "W", "e", "a", "t", "h", "e", "r", ":", " "
    >>,
    <<
      "\n", "-", " ", "H", "u", "m", "i", "d", "i", "t", "y", ":", " "
    >>,
    <<
      "%", "\n", "-", " ", "W", "i", "n", "d", " ", "s", "p", "e", "e", "d", ":", " "
    >>,
    <<
      " ", "m", "/", "s", "\n", "\n"
    >>
  >>

\* the closing sentence when suitability is "suitable"
\*   "<U+00E2><U+0153><U+2026> The current weather is good, **suitable for outdoor activities**. Suggest dressing appropriately."
SuitableSentence ==
  <<
    "U+00E2", "U+0153", "U+2026", " ", "T", "h", "e", " ", "c", "u", "r", "r", "e", "n", "t", " ",
    "w", "e", "a", "t", "h", "e", "r", " ", "i", "s", " ", "g", "o", "o", "d", ",", " ", "*", "*",
    "s", "u", "i", "t", "a", "b", "l", "e", " ", "f", "o", "r", " ", "o", "u", "t", "d", "o", "o",
    "r", " ", "a", "c", "t", "i", "v", "i", "t", "i", "e", "s", "*", "*", ".", " ", "S", "u", "g",
    "g", "e", "s", "t", " ", "d", "r", "e", "s", "s", "i", "n", "g", " ", "a", "p", "p", "r", "o",
    "p", "r", "i", "a", "t", "e", "l", "y", "."
  >>

\* the closing sentence otherwise, around {', '.join(reasons)} and {suitability}
\*   "<U+00E2><U+0161><U+00A0><U+00EF><U+00B8> The current weather has "
\*   ", **"
\*   " for going out**. Adjust plans based on actual conditions."
VerdictTemplate ==
  <<
    <<
      "U+00E2", "U+0161", "U+00A0", "U+00EF", "U+00B8", " ", "T", "h", "e", " ", "c", "u", "r",
      "r", "e", "n", "t", " ", "w", "e", "a", "t", "h", "e", "r", " ", "h", "a", "s", " "
    >>,
    <<
      ",", " ", "*", "*"
    >>,
    <<
      " ", "f", "o", "r", " ", "g", "o", "i", "n", "g", " ", "o", "u", "t", "*", "*", ".", " ",
      "A", "d", "j", "u", "s", "t", " ", "p", "l", "a", "n", "s", " ", "b", "a", "s", "e", "d",
      " ", "o", "n", " ", "a", "c", "t", "u", "a", "l", " ", "c", "o", "n", "d", "i", "t", "i",
      "o", "n", "s", "."
    >>
  >>

\* the separator of the reasons
\*   ", "
ReasonSep == <<",", " ">>

\* the report of process_query around {city_name}, {temp}, {weather_desc}, {humidity}, {wind_speed}
\*   "<U+011F><U+0178><U+0152> Current weather in "
\*   ":\n<U+011F><U+0178><U+0152><U+00A1> Temperature: "
\*   "<U+00C2><U+00B0>C\n<U+011F><U+0178><U+0152><U+00A4> Weather: "
\*   "\n<U+011F><U+0178><U+2019><U+00A7> Humidity: "
\*   "%\n<U+011F><U+0178><U+0152><U+00AC> Wind speed: "
\*   " m/s"
ReportTemplate ==
  <<
    <<
      "U+011F", "U+0178", "U+0152", " ", "C", "u", "r", "r", "e", "n", "t", " ", "w", "e", "a",
      "t", "h", "e", "r", " ", "i", "n", " "
    >>,
    <<
      ":", "\n", "U+011F", "U+0178", "U+0152", "U+00A1", " ", "T", "e", "m", "p", "e", "r", "a",
      "t", "u", "r", "e", ":", " "
    >>,
    <<
      "U+00C2", "U+00B0", "C", "\n", "U+011F", "U+0178", "U+0152", "U+00A4", " ", "W", "e", "a",
      "t", "h", "e", "r", ":", " "
    >>,
    <<
      "\n", "U+011F", "U+0178", "U+2019", "U+00A7", " ", "H", "u", "m", "i", "d", "i", "t", "y",
      ":", " "
    >>,
    <<
      "%", "\n", "U+011F", "U+0178", "U+0152", "U+00AC", " ", "W", "i", "n", "d", " ", "s", "p",
      "e", "e", "d", ":", " "
    >>,
    <<
      " ", "m", "/", "s"
    >>
  >>

\* A fallback that does not name the city
fallback_response_generic(city) == error_response

\* fallback_response, line 364
fallback_response(city) == Fill(FallbackTemplate, <<city>>)

\* "go out" in query.lower() or "outdoor" in query.lower()
IsSuitabilityQuery(q) ==
    \E k \in 1..Len(SuitabilityCues) : Contains(Lower(q), SuitabilityCues[k])

\* The temperature judgment, lines 262-273: the suitability it sets (0 when it
\* sets none) and the reason it appends, as places in SuitabilityLevels and Reasons
TemperatureRule(temp) ==
    IF temp > 30 THEN [level |-> 2, reasons |-> <<1>>]
    ELSE IF temp > 35 THEN [level |-> 3, reasons |-> <<2>>]
    ELSE IF temp < 5 THEN [level |-> 2, reasons |-> <<3>>]
    ELSE IF temp < -5 THEN [level |-> 3, reasons |-> <<4>>]
    ELSE [level |-> 0, reasons |-> << >>]

\* The weather condition judgment, lines 276-279
ConditionRule(desc) ==
    IF \E k \in 1..Len(bad_weather_keywords) : Contains(Lower(desc), bad_weather_keywords[k])
    THEN [level |-> 2, reasons |-> <<5>>]
    ELSE [level |-> 0, reasons |-> << >>]

\* The wind speed judgment, lines 282-287
WindRule(wind_speed) ==
    IF wind_speed > 10 THEN [level |-> 2, reasons |-> <<6>>]
    ELSE IF wind_speed > 15 THEN [level |-> 3, reasons |-> <<7>>]
    ELSE [level |-> 0, reasons |-> << >>]

\* The air quality judgment, lines 292-297
AirQualityRule(aqi) ==
    IF aqi > 150 THEN [level |-> 2, reasons |-> <<8>>]
    ELSE IF aqi > 200 THEN [level |-> 3, reasons |-> <<9>>]
    ELSE [level |-> 0, reasons |-> << >>]

\* The judgments with each one's reasons replacing the reasons so far
RECURSIVE Judge_last_reasons(_, _)
Judge_last_reasons(sofar, rules) ==
    IF Len(rules) = 0 THEN sofar
    ELSE Judge_last_reasons(
             [level   |-> IF rules[1].level # 0 THEN rules[1].level ELSE sofar.level,
              reasons |-> IF rules[1].level # 0 THEN rules[1].reasons ELSE sofar.reasons],
             Tail(rules))

\* The judgments one after the other: a later one that sets the suitability
\* overwrites it, and the reasons add up.  rules are the results of the
\* judgments, in order.
RECURSIVE Judge(_, _)
Judge(sofar, rules) ==
    IF Len(rules) = 0 THEN sofar
    ELSE Judge([level   |-> IF rules[1].level # 0 THEN rules[1].level ELSE sofar.level,
                reasons |-> sofar.reasons \o rules[1].reasons],
               Tail(rules))

\* The fields get_weather_suitability and the report read, in the order read;
\* the first lookup that raises ends the reading
WeatherFields(wd) ==
    LET fourth(temp, desc, hum, wind) ==
            IF wind.tag = "Err" THEN wind
            ELSE Ok([temp |-> temp.val, desc |-> desc.val, humidity |-> hum.val,
                     wind_speed |-> wind.val])
        third(temp, desc, hum) ==
            IF hum.tag = "Err" THEN hum
            ELSE fourth(temp, desc, hum, Lookup(wd, <<"wind", "speed">>))
        second(temp, desc) ==
            IF desc.tag = "Err" THEN desc
            ELSE third(temp, desc, Lookup(wd, <<"main", "humidity">>))
        first(temp) ==
            IF temp.tag = "Err" THEN temp
            ELSE second(temp, Lookup(wd, <<"weather", "[0]", "description">>))
    IN  first(Lookup(wd, <<"main", "temp">>))

\* The air quality judgment when the key is there, lines 290-297
AirQuality(wd) ==
    LET judged(aqi) ==
            IF aqi.tag = "Err" THEN aqi
            ELSE IF ~IsNumber(aqi.val) THEN Err("TypeError")
            ELSE Ok(AirQualityRule(NumOf(aqi.val)))
    IN  IF "air_quality" \notin DOMAIN wd.v THEN Ok([level |-> 0, reasons |-> << >>])
        ELSE judged(Get(wd.v["air_quality"], "aqi", JNum(0)))

\* The verdict of get_weather_suitability on the fields read, lines 257-297
Verdict(wd, f) ==
    LET judged(air) ==
            IF air.tag = "Err" THEN air
            ELSE Ok(Judge([level |-> 1, reasons |-> << >>],
                          <<TemperatureRule(NumOf(f.temp)), ConditionRule(f.desc.v),
                            WindRule(NumOf(f.wind_speed)), air.val>>))
    IN  IF ~IsNumber(f.temp) THEN Err("TypeError")
        ELSE IF f.desc.t # "str" THEN Err("AttributeError")
        ELSE IF ~IsNumber(f.wind_speed) THEN Err("TypeError")
        ELSE judged(AirQuality(wd))

\* The closing sentence, lines 306-309
VerdictSentence(v) ==
    IF v.level = 1 THEN SuitableSentence
    ELSE Fill(VerdictTemplate,
              <<Join(ReasonSep, [k \in 1..Len(v.reasons) |-> Reasons[v.reasons[k]]]),
                SuitabilityLevels[v.level]>>)

\* MCPClient.get_weather_suitability: Ok(value) when it returns a value, Err(e)
\* when it returns None because e was raised and caught (lines 313-315)
get_weather_suitability(wd) ==
    LET written(city, f, v) ==
            IF v.tag = "Err" THEN v
            ELSE Ok(JStr(Fill(SuitabilityTemplate,
                              <<PyStr(city), PyStr(f.temp), Capitalize(f.desc.v),
                                PyStr(f.humidity), PyStr(f.wind_speed)>>)
                         \o VerdictSentence(v.val)))
        judged(city, f) ==
            IF city.tag = "Err" THEN city
            ELSE IF f.tag = "Err" THEN f
            ELSE written(city.val, f.val, Verdict(wd, f.val))
        built(pre) ==
            IF pre.tag = "Err" THEN pre
            ELSE IF pre.val THEN Item(wd, "formatted_text")
            ELSE judged(Get(wd, "name", JStr(TheArea)), WeatherFields(wd))
    IN  built(In("formatted_text", wd))

\* process_query, lines 376-392: the raw weather information
weather_report(wd, city) ==
    LET written(f, name) ==
            IF f.tag = "Err" THEN f
            ELSE IF name.tag = "Err" THEN name
            ELSE Ok(JStr(Fill(ReportTemplate,
                              <<PyStr(name.val), PyStr(f.val.temp), PyStr(f.val.desc),
                                PyStr(f.val.humidity), PyStr(f.val.wind_speed)>>)))
        built(pre) ==
            IF pre.tag = "Err" THEN pre
            ELSE IF pre.val THEN Item(wd, "formatted_text")
            ELSE written(WeatherFields(wd), Get(wd, "name", JStr(city)))
    IN  built(In("formatted_text", wd))

\* process_query, lines 368-395: the reply on a tool result that is not None.
\* out is the reply, or Err(e) when e reaches the handler of process_query;
\* events are the exceptions raised on the way, each with the function that
\* caught it.
compose(q, city, wd) ==
    LET report(raw, caught) ==
            IF raw.tag = "Ok" THEN [out |-> Ok(PyStr(raw.val)), events |-> caught]
            ELSE [out    |-> raw,
                  events |-> Append(caught, [kind |-> raw.exc, at |-> "process_query"])]
        judged(suit) ==
            IF suit.tag = "Ok" /\ Truthy(suit.val)
            THEN [out |-> Ok(PyStr(suit.val)), events |-> << >>]
            ELSE report(weather_report(wd, city),
                        IF suit.tag = "Err"
                        THEN <<[kind |-> suit.exc, at |-> "get_weather_suitability"]>>
                        ELSE << >>)
    IN  IF IsSuitabilityQuery(q) THEN judged(get_weather_suitability(wd))
        ELSE report(weather_report(wd, city), << >>)

\* MCPClient.get_local_model_response; completion is the outcome of the call
get_local_model_response(completion) ==
    IF completion = Raises THEN LocalModelApology ELSE Strip(completion.text)

-----------------------------------------------------------------------------
(* The tool server (src/Ernie_Server.py): fetch_weather, format_weather,      *)
(* query_weather                                                              *)

\* What the weather provider does with a request: it answers with a JSON
\* document, it answers with an error status, or the request fails with a
\* message.
ProviderOk(v) == [tag |-> "Ok", val |-> v]

ProviderStatus(code) == [tag |-> "HTTPStatusError", code |-> code]

ProviderFails(msg) == [tag |-> "RequestError", msg |-> msg]

\* fetch_weather, before {e.response.status_code}
\*   "HTTP error: "
HttpErrorHead == <<"H", "T", "T", "P", " ", "e", "r", "r", "o", "r", ":", " ">>

\* fetch_weather, before {str(e)}
\*   "Request failed: "
RequestFailedHead ==
  <<
    "R", "e", "q", "u", "e", "s", "t", " ", "f", "a", "i", "l", "e", "d", ":", " "
  >>

\* format_weather, before {data['error']}
\*   "<U+26A0><U+FE0F> "
ServerErrorHead == <<"U+26A0", "U+FE0F", " ">>

\* the default of city, country and description in format_weather
\*   "Unknown"
Unknown == <<"U", "n", "k", "n", "o", "w", "n">>

\* the default of temp, humidity and wind_speed in format_weather
\*   "N/A"
NotAvailable == <<"N", "/", "A">>

\* the report of format_weather around {city}, {country}, {temp}, {humidity}, {wind_speed}, {description}
\*   "<U+1F30D> "
\*   ", "
\*   "\n<U+1F321> Temperature: "
\*   "<U+00B0>C\n<U+1F4A7> Humidity: "
\*   "%\n<U+1F32C> Wind Speed: "
\*   " m/s\n<U+1F324> Conditions: "
\*   "\n"
ServerTemplate ==
  <<
    <<
      "U+1F30D", " "
    >>,
    <<
      ",", " "
    >>,
    <<
      "\n", "U+1F321", " ", "T", "e", "m", "p", "e", "r", "a", "t", "u", "r", "e", ":", " "
    >>,
    <<
      "U+00B0", "C", "\n", "U+1F4A7", " ", "H", "u", "m", "i", "d", "i", "t", "y", ":", " "
    >>,
    <<
      "%", "\n", "U+1F32C", " ", "W", "i", "n", "d", " ", "S", "p", "e", "e", "d", ":", " "
    >>,
    <<
      " ", "m", "/", "s", "\n", "U+1F324", " ", "C", "o", "n", "d", "i", "t", "i", "o", "n", "s",
      ":", " "
    >>,
    <<
      "\n"
    >>
  >>

\* format_weather, before {e}
\*   "Failed to parse weather data: "
FailedToParseHead ==
  <<
    "F", "a", "i", "l", "e", "d", " ", "t", "o", " ", "p", "a", "r", "s", "e", " ", "w", "e", "a",
    "t", "h", "e", "r", " ", "d", "a", "t", "a", ":", " "
  >>

\* fetch_weather: what it returns, the document of the provider as
\* response.json() read it (a dict, or any other JSON value; a str is given as
\* the text json.loads reads) or a dict with an error entry
fetch_weather(p) ==
    CASE p.tag = "Ok" -> p.val
      [] p.tag = "HTTPStatusError" ->
            JDict([error |-> JStr(HttpErrorHead \o IntStr(p.code))])
      [] p.tag = "RequestError" ->
            JDict([error |-> JStr(RequestFailedHead \o p.msg)])

\* format_weather: Ok(text), or Err(e) when e is raised.  data is a JSON value,
\* or a str, given as the text json.loads reads (JsonText, PlainText,
\* BrokenText, DeepText, LongIntegerText).
format_weather(data) ==
    LET \* d.get(key, {}).get(inner, default)
        nested(d, key, inner, default) ==
            LET from(e) == IF e.tag = "Err" THEN e ELSE Get(e.val, inner, default)
            IN  from(Get(d, key, JDict(<< >>)))
        \* d.get("weather", [{}])[0].get("description", "Unknown")
        described(d) ==
            LET of(first) == IF first.tag = "Err" THEN first
                             ELSE Get(first.val, "description", JStr(Unknown))
                from(wlist) == IF wlist.tag = "Err" THEN wlist ELSE of(First(wlist.val))
            IN  from(Get(d, "weather", JList(<<JDict(<< >>)>>)))
        written(city, country, temp, hum, speed, desc) ==
            IF city.tag = "Err" THEN city
            ELSE IF country.tag = "Err" THEN country
            ELSE IF temp.tag = "Err" THEN temp
            ELSE IF hum.tag = "Err" THEN hum
            ELSE IF speed.tag = "Err" THEN speed
            ELSE IF desc.tag = "Err" THEN desc
            ELSE Ok(Fill(ServerTemplate,
                         <<PyStr(city.val), PyStr(country.val), PyStr(temp.val),
                           PyStr(hum.val), PyStr(speed.val), PyStr(desc.val)>>))
        \* f"... {d['error']}"
        refused(item) == IF item.tag = "Err" THEN item
                         ELSE Ok(ServerErrorHead \o PyStr(item.val))
        \* lines 57-76, on the value d
        formatted(d) ==
            LET tested(has) ==
                    IF has.tag = "Err" THEN has
                    ELSE IF has.val THEN refused(Item(d, "error"))
                    ELSE written(Get(d, "name", JStr(Unknown)),
                                 nested(d, "sys", "country", JStr(Unknown)),
                                 nested(d, "main", "temp", JStr(NotAvailable)),
                                 nested(d, "main", "humidity", JStr(NotAvailable)),
                                 nested(d, "wind", "speed", JStr(NotAvailable)),
                                 described(d))
            IN  tested(In("error", d))
        \* lines 50-54: a str is parsed, and any failure is told in the text returned
        parsed(loaded) == IF loaded.tag = "Err" THEN Ok(FailedToParseHead \o data.why)
                          ELSE formatted(loaded.val)
    IN  IF "json" \in DOMAIN data THEN parsed(json_loads(data)) ELSE formatted(data)

\* query_weather: format_weather(fetch_weather(city))
query_weather(p) == format_weather(fetch_weather(p))

-----------------------------------------------------------------------------
(* The gazetteer: translate_city, which call_weather_tool names the city of   *)
(* the tool call with.                                                        *)

\* CITY_MAP of Ernie_Client.py, in the order of the dictionary
Client_CITY_MAP ==
    <<[cn |-> <<"U+5317", "U+4EAC">>, en |-> <<"B", "e", "i", "j", "i", "n", "g">>],
      [cn |-> <<"U+4E0A", "U+6D77">>, en |-> <<"S", "h", "a", "n", "g", "h", "a", "i">>],
      [cn |-> <<"U+5E7F", "U+5DDE">>, en |-> <<"G", "u", "a", "n", "g", "z", "h", "o", "u">>],
      [cn |-> <<"U+6DF1", "U+5733">>, en |-> <<"S", "h", "e", "n", "z", "h", "e", "n">>]>>

\* CITY_MAP of Weather.py, which "from city import *" brings: the native names
\* and their English forms, in the order of the dictionary
CITY_MAP ==
    <<[cn |-> <<"U+5317", "U+4EAC">>, en |-> <<"B", "e", "i", "j", "i", "n", "g">>],
      [cn |-> <<"U+4E0A", "U+6D77">>, en |-> <<"S", "h", "a", "n", "g", "h", "a", "i">>]>>

\* The syllables pypinyin.lazy_pinyin gives for the characters the names are
\* made of; any other character stays as it is
PinyinOf ==
    [c \in {"U+5317", "U+4EAC", "U+5E02", "U+4E0A", "U+6D77", "U+6210"} |->
        CASE c = "U+5317" -> <<"b", "e", "i">>
          [] c = "U+4EAC" -> <<"j", "i", "n", "g">>
          [] c = "U+5E02" -> <<"s", "h", "i">>
          [] c = "U+4E0A" -> <<"s", "h", "a", "n", "g">>
          [] c = "U+6D77" -> <<"h", "a", "i">>
          [] c = "U+6210" -> <<"c", "h", "e", "n", "g">>]

\* pypinyin.lazy_pinyin(city)
lazy_pinyin(city) ==
    [k \in 1..Len(city) |-> IF city[k] \in DOMAIN PinyinOf THEN PinyinOf[city[k]] ELSE <<city[k]>>]

\* The entry of CITY_MAP translate_city returns the English form of, lines 64-69:
\* the entry of the name itself, else the first entry in the order of the
\* dictionary whose native name the name starts with or contains; 0 if none
CityMapEntry(city) ==
    LET exact   == {k \in 1..Len(CITY_MAP) : CITY_MAP[k].cn = city}
        partial == {k \in 1..Len(CITY_MAP) :
                       StartsWith(city, CITY_MAP[k].cn) \/ Contains(city, CITY_MAP[k].cn)}
    IN  IF exact # {} THEN Max(exact)
        ELSE IF partial # {} THEN Min(partial)
        ELSE 0

\* translate_city of Weather.py and Agent.py; available tells whether pypinyin
\* can be imported
translate_city(city, available) ==
    IF CityMapEntry(city) # 0 THEN CITY_MAP[CityMapEntry(city)].en
    ELSE IF available THEN Capitalize(Join(<< >>, lazy_pinyin(city)))
    ELSE city

\* translate_city of Ernie_Client.py: CITY_MAP.get(city, city)
Client_translate_city(city) ==
    LET exact == {k \in 1..Len(Client_CITY_MAP) : Client_CITY_MAP[k].cn = city}
    IN  IF exact # {} THEN Client_CITY_MAP[Max(exact)].en ELSE city

\* translated_city = translate_city(city), with what the call went through:
\* import pypinyin is tried at each call that finds no entry, and the
\* ImportError is caught in the function
translated_city(city, available) ==
    [out    |-> translate_city(city, available),
     events |-> IF ~available /\ CityMapEntry(city) = 0 THEN <<"ImportError">> ELSE << >>]
-----------------------------------------------------------------------------
(* The inputs of a session: what the user types, and what the completion      *)
(* endpoint, the tool transport and the weather provider answer.              *)

\* "Beijing weather"
UBeijingWeather == <<"B", "e", "i", "j", "i", "n", "g", " ", "w", "e", "a", "t", "h", "e", "r">>

\* "go out in Beijing"
UGoOutBeijing == <<"g", "o", " ", "o", "u", "t", " ", "i", "n", " ", "B", "e", "i", "j", "i", "n", "g">>

\* "how is the weather"
UHowWeather == <<"h", "o", "w", " ", "i", "s", " ", "t", "h", "e", " ", "w", "e", "a", "t", "h", "e", "r">>

\* "no"
DNo == <<"n", "o">>

\* "yes city: Shanghai"
DYesShanghai == <<"y", "e", "s", " ", "c", "i", "t", "y", ":", " ", "S", "h", "a", "n", "g", "h", "a", "i">>

\* "yes"
DYes == <<"y", "e", "s">>

\* " Hi! "
AHi == <<" ", "H", "i", "!", " ">>

\* "Beijing"
SBeijing == <<"B", "e", "i", "j", "i", "n", "g">>

\* "clear sky"
SClearSky == <<"c", "l", "e", "a", "r", " ", "s", "k", "y">>

\* "city not found"
SNotFound == <<"c", "i", "t", "y", " ", "n", "o", "t", " ", "f", "o", "u", "n", "d">>

\* "CN"
SCN == <<"C", "N">>

\* "timed out"
STimedOut == <<"t", "i", "m", "e", "d", " ", "o", "u", "t">>

\* "No."
DNoPeriod == <<"N", "o", ".">>

\* "yes city: Hanoi"
DYesHanoi == <<"y", "e", "s", " ", "c", "i", "t", "y", ":", " ", "H", "a", "n", "o", "i">>

\* "a"
TextA == <<"a">>

\* "b"
TextB == <<"b">>

\* What the user types in a session
SessionUtterances == <<UBeijingWeather, UGoOutBeijing, UHowWeather>>

\* The outcomes of the classification call
ClassifyOutcomes == <<Raises, Content(DNo), Content(DYesShanghai), Content(DYes)>>

\* The outcomes of the direct answer call
DirectOutcomes == <<Raises, Content(AHi)>>

\* A weather document with every field the composers read
WeatherDoc ==
    JDict([name    |-> JStr(SBeijing),
           sys     |-> JDict([country |-> JStr(SCN)]),
           main    |-> JDict([temp |-> JNum(32), humidity |-> JNum(40)]),
           weather |-> JList(<<JDict([description |-> JStr(SClearSky)])>>),
           wind    |-> JDict([speed |-> JNum(3)])])

\* The same without its wind entry
WeatherDocNoWind ==
    JDict([name    |-> JStr(SBeijing),
           main    |-> JDict([temp |-> JNum(32), humidity |-> JNum(40)]),
           weather |-> JList(<<JDict([description |-> JStr(SClearSky)])>>)])

\* {"error": "city not found"}
ErrorDoc == JDict([error |-> JStr(SNotFound)])

\* What session.call_tool gives when the tool is served by something else than
\* the server of this repository
TransportOutcomes ==
    <<ToolRaises, ToolEmpty, ToolText(JsonText(ErrorDoc)), ToolText(JsonText(WeatherDoc)),
      ToolText(JsonText(WeatherDocNoWind))>>

\* What the weather provider does with the request of fetch_weather
ProviderOutcomes == <<ProviderOk(WeatherDoc), ProviderStatus(404), ProviderFails(STimedOut)>>

\* should_call_tool on the utterances and the classification outcomes of a
\* session, computed once
SessionRoutes ==
    [i \in 1..Len(SessionUtterances) |->
        [j \in 1..Len(ClassifyOutcomes) |->
            should_call_tool(SessionUtterances[i], ClassifyOutcomes[j])]]

\* should_call_tool(q, completion) for an utterance and an outcome of a session
Route(q, completion) ==
    IF \E a \in 1..Len(SessionUtterances) : SessionUtterances[a] = q
    THEN LET i == CHOOSE a \in 1..Len(SessionUtterances) : SessionUtterances[a] = q
             j == CHOOSE b \in 1..Len(ClassifyOutcomes) : ClassifyOutcomes[b] = completion
         IN  SessionRoutes[i][j]
    ELSE should_call_tool(q, completion)

\* The turns of a session
MaxTurns == 3

-----------------------------------------------------------------------------
(* The session: connect_to_server, then process_query turn after turn, as     *)
(* the loop of chat_loop calls it.  A turn is one call of process_query; it   *)
(* is taken in steps that end where it awaits an answer from outside (the     *)
(* classification call, the tool call, the direct answer call).               *)

Init ==
    /\ dialogue_memory = DialogueMemory
    /\ connected = FALSE
    /\ tools_available = FALSE
    /\ pc = "Idle"
    /\ query = << >>
    /\ decision = None
    /\ route = None
    /\ weather_data = None
    /\ tool_result = None
    /\ provider = None
    /\ served = None
    /\ context = None
    /\ translated = None
    /\ reply = None
    /\ calls = << >>
    /\ events = << >>
    /\ turns = 0

\* A failure of the turn: what happened, and the function it happened in
Event(kind, at) == [kind |-> kind, at |-> at]

EventsAt(kinds, at) == [k \in 1..Len(kinds) |-> Event(kinds[k], at)]

\* if should_call and city
WantsTool(r) == r[1] /\ r[2] # None /\ Len(r[2].val) > 0

\* if not weather_data
NoData(out) == out = PyNone \/ ~Truthy(out.val)

\* connect_to_server: initialize, list_tools; listed tells whether a tool named
\* query_weather is among the tools listed
Connect(listed) ==
    /\ ~connected
    /\ connected' = TRUE
    /\ tools_available' = listed
    /\ UNCHANGED <<dialogue_memory, pc, query, decision, route, weather_data, tool_result, provider, served, context, reply,
                   calls, events, turns, translated>>

\* The reply returned without the add_message call before it
Respond_unrecorded(m, text) ==
    /\ dialogue_memory' = m
    /\ reply' = Some(text)
    /\ pc' = "Idle"

\* self.dialogue_memory.add_message("assistant", text); return text
Respond(m, text) ==
    /\ dialogue_memory' = add_message(m, "assistant", text)
    /\ reply' = Some(text)
    /\ pc' = "Idle"

\* The handler of process_query returning the apology of the local model
Composed_other_apology(m, e, made) ==
    /\ events' = e \o made.events
    /\ Respond(m, IF made.out.tag = "Ok" THEN made.out.val ELSE LocalModelApology)

\* process_query, lines 368-407, on a tool result that is not None: the reply
\* composed, or the apology of the handler when composing raised
Composed(m, e, made) ==
    /\ events' = e \o made.events
    /\ Respond(m, IF made.out.tag = "Ok" THEN made.out.val ELSE error_response)

\* process_query, lines 360-407, from the return of call_weather_tool with got:
\* m is the memory and e the events of the turn so far, q the utterance
ToolAnswered(m, q, city, e, got) ==
    /\ weather_data' = got.out
    /\ IF NoData(got.out)
       THEN /\ events' = e \o EventsAt(got.events, "call_weather_tool")
            /\ Respond(m, fallback_response(city))
       ELSE Composed(m, e \o EventsAt(got.events, "call_weather_tool"),
                     compose(q, city, got.out.val))

\* The same with the tool call made a second time
AfterRouting_retry(m, q, r, c, e, x) ==
    /\ route' = Some(r)
    /\ IF WantsTool(r)
       THEN IF ~tools_available
            THEN /\ calls' = c
                 /\ context' = x
                 /\ translated' = None
                 /\ ToolAnswered(m, q, r[2].val, e, call_weather_tool(FALSE, ToolRaises))
            ELSE \E available \in BOOLEAN :
                 /\ pc' = "ToolCall"
                 /\ calls' = Append(Append(c, "call_tool"), "call_tool")
                 /\ context' = x
                 /\ translated' = Some(translated_city(r[2].val, available).out)
                 /\ events' = e \o EventsAt(translated_city(r[2].val, available).events,
                                             "translate_city")
                 /\ dialogue_memory' = m
                 /\ weather_data' = None
                 /\ reply' = None
       ELSE /\ pc' = "DirectAnswer"
            /\ calls' = Append(c, "direct_answer")
            /\ translated' = None
            /\ context' = Some(get_recent_context(m.history))
            /\ events' = e
            /\ dialogue_memory' = m
            /\ weather_data' = None
            /\ reply' = None

\* The same without the test of tools_available
AfterRouting_unchecked(m, q, r, c, e, x) ==
    /\ route' = Some(r)
    /\ IF WantsTool(r)
       THEN \E available \in BOOLEAN :
            /\ pc' = "ToolCall"
            /\ calls' = Append(c, "call_tool")
            /\ context' = x
            /\ translated' = Some(translated_city(r[2].val, available).out)
            /\ events' = e \o EventsAt(translated_city(r[2].val, available).events,
                                        "translate_city")
            /\ dialogue_memory' = m
            /\ weather_data' = None
            /\ reply' = None
       ELSE /\ pc' = "DirectAnswer"
            /\ calls' = Append(c, "direct_answer")
            /\ translated' = None
            /\ context' = Some(get_recent_context(m.history))
            /\ events' = e
            /\ dialogue_memory' = m
            /\ weather_data' = None
            /\ reply' = None

\* process_query, lines 356-401, from the return of should_call_tool with r to
\* the next await or to the return, call_weather_tool up to its await of
\* session.call_tool (lines 214-222) included: m is the memory, c the calls and e the
\* events of the turn so far, x the context last rendered, q the utterance
AfterRouting(m, q, r, c, e, x) ==
    /\ route' = Some(r)
    /\ IF WantsTool(r)
       THEN IF ~tools_available
            THEN /\ calls' = c
                 /\ context' = x
                 /\ translated' = None
                 /\ ToolAnswered(m, q, r[2].val, e, call_weather_tool(FALSE, ToolRaises))
            ELSE \E available \in BOOLEAN :
                 /\ pc' = "ToolCall"
                 /\ calls' = Append(c, "call_tool")
                 /\ context' = x
                 /\ translated' = Some(translated_city(r[2].val, available).out)
                 /\ events' = e \o EventsAt(translated_city(r[2].val, available).events,
                                             "translate_city")
                 /\ dialogue_memory' = m
                 /\ weather_data' = None
                 /\ reply' = None
       ELSE /\ pc' = "DirectAnswer"
            /\ calls' = Append(c, "direct_answer")
            /\ translated' = None
            /\ context' = Some(get_recent_context(m.history))
            /\ events' = e
            /\ dialogue_memory' = m
            /\ weather_data' = None
            /\ reply' = None

\* process_query(q), up to its first await on an answer from outside
ProcessQuery(q) ==
    /\ pc = "Idle"
    /\ connected
    /\ turns < MaxTurns
    /\ turns' = turns + 1
    /\ query' = q
    /\ decision' = None
    /\ tool_result' = None
    /\ provider' = None
    /\ served' = None
    /\ UNCHANGED <<connected, tools_available>>
    /\ IF NeedsClassification(q)
       THEN /\ pc' = "Routing"
            /\ translated' = None
            /\ calls' = <<"classify">>
            /\ events' = << >>
            /\ dialogue_memory' = add_message(dialogue_memory, "user", q)
            /\ context' = Some(get_recent_context(dialogue_memory'.history))
            /\ route' = None
            /\ weather_data' = None
            /\ reply' = None
       ELSE AfterRouting(add_message(dialogue_memory, "user", q), q, Route(q, Raises), << >>, << >>, None)

\* The classification call returns or raises, should_call_tool returns, and
\* process_query goes on
ClassifyReturns(completion) ==
    /\ pc = "Routing"
    /\ decision' = Some(completion)
    /\ AfterRouting(dialogue_memory, query, Route(query, completion), calls,
                    IF completion = Raises
                    THEN <<Event("CompletionError", "should_call_tool")>> ELSE << >>,
                    context)
    /\ UNCHANGED <<connected, tools_available, query, tool_result, provider, served, turns>>

\* The same with call_weather_tool recording a turn of its own
ToolReturns_recording(outcome) ==
    /\ pc = "ToolCall"
    /\ tool_result' = Some(outcome)
    /\ UNCHANGED <<provider, served, context>>
    /\ ToolAnswered(add_message(dialogue_memory, "assistant", route.val[2].val), query,
                    route.val[2].val, events, call_weather_tool(tools_available, outcome))
    /\ UNCHANGED <<connected, tools_available, query, decision, route, calls, turns, translated>>

\* session.call_tool gives outcome; call_weather_tool returns, and process_query
\* runs to its return.  The tool is served by something else than the server of
\* this repository.
ToolReturns(outcome) ==
    /\ pc = "ToolCall"
    /\ tool_result' = Some(outcome)
    /\ UNCHANGED <<provider, served, context>>
    /\ ToolAnswered(dialogue_memory, query, route.val[2].val, events,
                    call_weather_tool(tools_available, outcome))
    /\ UNCHANGED <<connected, tools_available, query, decision, route, calls, turns, translated>>

\* The text the server of this repository answers the tool call with
ServerAnswer(p) == ToolText(PlainText(query_weather(p).val))

\* The same, the tool call being answered by query_weather of Ernie_Server after
\* the weather provider did p
ServerReturns(p) ==
    /\ pc = "ToolCall"
    /\ tool_result' = Some(ServerAnswer(p))
    /\ provider' = Some(p)
    /\ served' = Some(query_weather(p))
    /\ UNCHANGED context
    /\ ToolAnswered(dialogue_memory, query, route.val[2].val,
                    IF p.tag = "Ok" THEN events
                    ELSE Append(events, Event(p.tag, "fetch_weather")),
                    call_weather_tool(tools_available, ServerAnswer(p)))
    /\ UNCHANGED <<connected, tools_available, query, decision, route, calls, turns, translated>>

\* The same with the routing made again when the direct answer call raises
DirectReturns_reroute(completion) ==
    /\ pc = "DirectAnswer"
    /\ IF completion = Raises
       THEN /\ pc' = "Routing"
            /\ calls' = <<"classify">>
            /\ events' = << >>
            /\ UNCHANGED <<dialogue_memory, reply>>
       ELSE /\ events' = events
            /\ calls' = calls
            /\ Respond(dialogue_memory, get_local_model_response(completion))
    /\ UNCHANGED <<connected, tools_available, query, decision, route,
                   weather_data, tool_result, provider, served, context, turns, translated>>

\* The direct answer call returns or raises, and process_query returns
DirectReturns(completion) ==
    /\ pc = "DirectAnswer"
    /\ events' = IF completion = Raises
                 THEN Append(events, Event("CompletionError", "get_local_model_response"))
                 ELSE events
    /\ Respond(dialogue_memory, get_local_model_response(completion))
    /\ UNCHANGED <<connected, tools_available, query, decision, route,
                   weather_data, tool_result, provider, served, context, calls, turns, translated>>

Next ==
    \/ \E listed \in BOOLEAN : Connect(listed)
    \/ \E i \in 1..Len(SessionUtterances) : ProcessQuery(SessionUtterances[i])
    \/ \E j \in 1..Len(ClassifyOutcomes) : ClassifyReturns(ClassifyOutcomes[j])
    \/ \E k \in 1..Len(TransportOutcomes) : ToolReturns(TransportOutcomes[k])
    \/ \E k \in 1..Len(ProviderOutcomes) : ServerReturns(ProviderOutcomes[k])
    \/ \E j \in 1..Len(DirectOutcomes) : DirectReturns(DirectOutcomes[j])

Spec == Init /\ [][Next]_vars

-----------------------------------------------------------------------------
(* The router alone, on utterances put together from pieces.                  *)

\* The pieces utterances are put together from:
\* "What is ", "Beijing", "'s weather", " weather", "hello ", "go out in ", "dalian"
Fragments ==
    <<<<"W", "h", "a", "t", " ", "i", "s", " ">>,
      <<"B", "e", "i", "j", "i", "n", "g">>,
      <<"'", "s", " ", "w", "e", "a", "t", "h", "e", "r">>,
      <<" ", "w", "e", "a", "t", "h", "e", "r">>,
      <<"h", "e", "l", "l", "o", " ">>,
      <<"g", "o", " ", "o", "u", "t", " ", "i", "n", " ">>,
      <<"d", "a", "l", "i", "a", "n">>>>

\* The utterances of at most MaxFrags pieces (single lines, as input() gives them)
MaxFrags == 3

RECURSIVE Concat(_)
Concat(pieces) == IF Len(pieces) = 0 THEN << >> ELSE pieces[1] \o Concat(Tail(pieces))

RouterUtterances ==
    {Concat([k \in 1..Len(w) |-> Fragments[w[k]]]) :
        w \in UNION {[1..n -> 1..Len(Fragments)] : n \in 0..MaxFrags}}

\* Utterances typed with letters and blanks outside ASCII: "BE\u0130J\u0130NG",
\* "\u017fhanghai weather", "\u3000be\u0131j\u0131ng\xa0"
OtherUtterances ==
    {<<"B", "E", "U+0130", "J", "U+0130", "N", "G">>,
     <<"U+017F", "h", "a", "n", "g", "h", "a", "i", " ", "w", "e", "a", "t", "h", "e", "r">>,
     <<"U+3000", "b", "e", "U+0131", "j", "U+0131", "n", "g", "U+00A0">>}

\* The outcomes of the classification call the router is tried on; the last is
\* "yes city:\xa0Paris\x0bx"
RouterOutcomes ==
    <<Raises, Content(DNo), Content(DNoPeriod), Content(DYes), Content(DYesShanghai),
      Content(DYesHanoi),
      Content(<<"y", "e", "s", " ", "c", "i", "t", "y", ":", "U+00A0", "P", "a", "r", "i", "s", "U+000B", "x">>)>>

\* The router alone: should_call_tool on an utterance
InitRouter ==
    /\ query \in RouterUtterances \cup OtherUtterances
    /\ pc = "Screening"
    /\ dialogue_memory = DialogueMemory
    /\ connected = TRUE
    /\ tools_available = TRUE
    /\ decision = None
    /\ route = None
    /\ weather_data = None
    /\ tool_result = None
    /\ provider = None
    /\ served = None
    /\ context = None
    /\ translated = None
    /\ reply = None
    /\ calls = << >>
    /\ events = << >>
    /\ turns = 0

\* should_call_tool, lines 150-184: the keyword test, and on a keyword the return
\* of line 156; without one the classification call is made
Screen ==
    /\ pc = "Screening"
    /\ IF NeedsClassification(query)
       THEN /\ pc' = "Routing"
            /\ calls' = <<"classify">>
            /\ route' = None
            /\ context' = Some(get_recent_context(dialogue_memory.history))
       ELSE /\ pc' = "Routed"
            /\ calls' = << >>
            /\ context' = context
            /\ route' = Some(should_call_tool(query, Raises))
    /\ UNCHANGED <<dialogue_memory, connected, tools_available, query, decision,
                   weather_data, tool_result, provider, served, reply, events, turns, translated>>

\* should_call_tool, lines 185-210: the classification call returns or raises,
\* and should_call_tool returns
Classified(completion) ==
    /\ pc = "Routing"
    /\ pc' = "Routed"
    /\ decision' = Some(completion)
    /\ route' = Some(should_call_tool(query, completion))
    /\ events' = IF completion = Raises
                 THEN <<Event("CompletionError", "should_call_tool")>> ELSE << >>
    /\ UNCHANGED <<dialogue_memory, connected, tools_available, query, weather_data, tool_result, provider, served, context,
                   reply, calls, turns, translated>>

NextRouter ==
    \/ Screen
    \/ \E j \in 1..Len(RouterOutcomes) : Classified(RouterOutcomes[j])

SpecRouter == InitRouter /\ [][NextRouter]_vars

-----------------------------------------------------------------------------
(* The dialogue memory alone: any sequence of add_message and clear.  The     *)
(* client reaches the memory through add_message only, so every memory of a   *)
(* session is a memory of this specification.                                 *)

\* The add_message calls since construction or the last clear
MaxRecords == 7

MemoryRoles == {"user", "assistant"}

MemoryTexts == {TextA, TextB}

AddMessage(role, content) ==
    /\ Len(dialogue_memory.recorded) < MaxRecords
    /\ dialogue_memory' = add_message(dialogue_memory, role, content)
    /\ context' = None
    /\ UNCHANGED <<connected, tools_available, pc, query, decision, route, weather_data,
                   tool_result, provider, served, reply, calls, events, turns, translated>>

Clear ==
    /\ dialogue_memory' = clear(dialogue_memory)
    /\ context' = None
    /\ UNCHANGED <<connected, tools_available, pc, query, decision, route, weather_data,
                   tool_result, provider, served, reply, calls, events, turns, translated>>

\* dialogue_memory.get_recent_context(): context holds the rendering of the memory
\* as it is, and is None again once add_message or clear changes the memory
GetRecentContext ==
    /\ context' = Some(get_recent_context(dialogue_memory.history))
    /\ UNCHANGED <<dialogue_memory, connected, tools_available, pc, query, decision, route,
                   weather_data, tool_result, provider, served, reply, calls, events, turns, translated>>

NextMemory ==
    \/ \E role \in MemoryRoles, content \in MemoryTexts : AddMessage(role, content)
    \/ Clear
    \/ GetRecentContext

SpecMemory == Init /\ [][NextMemory]_vars

-----------------------------------------------------------------------------
(* The tool invoker and the composers alone: call_weather_tool from the       *)
(* answer of session.call_tool on, and process_query to its return.           *)

\* "light rain"
SLightRain == <<"l", "i", "g", "h", "t", " ", "r", "a", "i", "n">>

\* The temperatures, the wind speeds, the descriptions and the air quality
\* indexes (None: no air_quality entry) of the payloads tried
Temps == {-10, -5, 0, 5, 20, 30, 32, 35, 36, 40}

Winds == {3, 10, 12, 15, 16, 20}

Descs == {SClearSky, SLightRain}

AirQualities == {None, Some(100), Some(160), Some(250)}

\* A dict with the entries of full whose keys are in keys
Restrict(full, keys) == [k \in (DOMAIN full) \cap keys |-> full[k]]

\* A payload with every field the composers read
Payload(temp, wind, desc, aq) ==
    LET base == [name    |-> JStr(SBeijing),
                 main    |-> JDict([temp |-> JNum(temp), humidity |-> JNum(40)]),
                 weather |-> JList(<<JDict([description |-> JStr(desc)])>>),
                 wind    |-> JDict([speed |-> JNum(wind)])]
        with(a) == [name |-> base.name, main |-> base.main, weather |-> base.weather,
                    wind |-> base.wind, air_quality |-> JDict([aqi |-> JNum(a)])]
    IN  JDict(IF aq = None THEN base ELSE with(aq.val))

CompletePayloads ==
    {Payload(t, w, d, a) : t \in Temps, w \in Winds, d \in Descs, a \in AirQualities}

\* Payloads that lack entries, the empty object, and objects with an error entry
IncompletePayloads ==
    {JDict(Restrict(WeatherDoc.v, keys)) : keys \in (SUBSET {"name", "main", "weather", "wind"}) \ {{"name", "main", "weather", "wind"}}}
    \cup {JDict([name |-> JStr(SBeijing), main |-> WeatherDoc.v.main, weather |-> JList(<< >>),
                 wind |-> WeatherDoc.v.wind]),
          ErrorDoc,
          JDict([error |-> JStr(SNotFound), name |-> JStr(SBeijing)])}

\* The other answers of session.call_tool: it raises, it gives no content, a
\* text that is no JSON, a text nested too deep, a text with an integer of too
\* many digits, content without text, the JSON text of a value that is no object
OtherResponses ==
    <<ToolRaises, ToolEmpty, ToolText(PlainText(SBeijing)), ToolText(PlainText(<< >>)),
      ToolText(BrokenText(<<"{", "\"", "n", "a", "m", "e", "\"">>,
                          <<"E", "x", "p", "e", "c", "t", "i", "n", "g", " ", "'", ":", "'", " ", "d", "e", "l", "i", "m", "i", "t", "e", "r", ":", " ", "l", "i", "n", "e", " ", "1", " ", "c", "o", "l", "u", "m", "n", " ", "8", " ", "(", "c", "h", "a", "r", " ", "7", ")">>)),
      ToolText(DeepText(RecursionExceeded)), ToolText(LongIntegerText(DigitsExceeded)),
      ToolOther,
      ToolText(JsonText(JNull)), ToolText(JsonText(JNum(0))), ToolText(JsonText(JNum(5))),
      ToolText(JsonText(JList(<< >>))), ToolText(JsonText(JStr(SBeijing))),
      ToolText(JsonText(JBool(TRUE)))>>

\* session.call_tool has answered the call of a turn routed to the tool for
\* Beijing: by the keyword test for "Beijing weather", by the classification
\* call answering yes for "go out in Beijing"; translate_city was called before
\* the call (line 218); call_weather_tool and process_query go on from there
InitTool ==
    /\ \/ tool_result \in {Some(ToolText(JsonText(v))) :
                               v \in CompletePayloads \cup IncompletePayloads}
       \/ \E i \in 1..Len(OtherResponses) : tool_result = Some(OtherResponses[i])
    /\ query \in {UBeijingWeather, UGoOutBeijing}
    /\ pc = "ToolResult"
    /\ dialogue_memory = add_message(DialogueMemory, "user", query)
    /\ connected = TRUE
    /\ tools_available = TRUE
    /\ IF NeedsClassification(query)
       THEN /\ decision = Some(Content(DYes))
            /\ context = Some(get_recent_context(dialogue_memory.history))
            /\ calls = <<"classify", "call_tool">>
       ELSE /\ decision = None
            /\ context = None
            /\ calls = <<"call_tool">>
    /\ route = Some(should_call_tool(query, IF decision = None THEN Raises ELSE decision.val))
    /\ \E available \in BOOLEAN :
           /\ translated = Some(translated_city(route.val[2].val, available).out)
           /\ events = EventsAt(translated_city(route.val[2].val, available).events,
                                "translate_city")
    /\ weather_data = None
    /\ provider = None
    /\ served = None
    /\ reply = None
    /\ turns = 1

\* call_weather_tool, lines 223-242, and process_query, lines 362-407
ToolDelivers ==
    /\ pc = "ToolResult"
    /\ ToolAnswered(dialogue_memory, query, route.val[2].val, events,
                    call_weather_tool(tools_available, tool_result.val))
    /\ UNCHANGED <<connected, tools_available, query, decision, route, tool_result, provider, served, context, calls,
                   turns, translated>>

SpecTool == InitTool /\ [][ToolDelivers]_vars

-----------------------------------------------------------------------------
(* The tool server alone: query_weather on what the weather provider did.     *)

\* The entries the provider's document may hold under each key read by
\* format_weather; an absent key is drawn apart
EntryOptions ==
    [name    |-> <<JStr(SBeijing)>>,
     sys     |-> <<JDict(Restrict(WeatherDoc.v.sys.v, {})), WeatherDoc.v.sys>>,
     main    |-> <<JDict(Restrict(WeatherDoc.v.main.v, {})),
                   JDict(Restrict(WeatherDoc.v.main.v, {"temp"})), WeatherDoc.v.main>>,
     wind    |-> <<JDict(Restrict(WeatherDoc.v.wind.v, {})), WeatherDoc.v.wind>>,
     weather |-> <<JList(<< >>), JList(<<JDict(Restrict(WeatherDoc.v.wind.v, {}))>>),
                   WeatherDoc.v.weather>>]

\* The documents of the provider: any of the keys, each with any of its entries
ServerDocs ==
    {JDict([k \in keys |-> EntryOptions[k][pick[k]]]) :
        keys \in SUBSET DOMAIN EntryOptions,
        pick \in {p \in [DOMAIN EntryOptions -> 1..Len(EntryOptions.main)] :
                     \A k \in DOMAIN EntryOptions : p[k] <= Len(EntryOptions[k])}}

\* The other documents response.json() may give: a str that is no JSON, a str
\* that is the JSON text of a document, of an error document, of a number, of a
\* str, a str of JSON cut short, a str nested too deep, a str with an integer of
\* too many digits, and values that are
\* neither a dict nor a str
OtherDocuments ==
    <<PlainText(SBeijing), PlainText(<< >>), JsonText(WeatherDoc), JsonText(ErrorDoc),
      JsonText(JDict([name |-> JStr(SBeijing)])), JsonText(JNum(5)),
      JsonText(JStr(SBeijing)),
      BrokenText(<<"{", "\"", "n", "a", "m", "e", "\"">>,
                 <<"E", "x", "p", "e", "c", "t", "i", "n", "g", " ", "'", ":", "'", " ", "d", "e", "l", "i", "m", "i", "t", "e", "r", ":", " ", "l", "i", "n", "e", " ", "1", " ", "c", "o", "l", "u", "m", "n", " ", "8", " ", "(", "c", "h", "a", "r", " ", "7", ")">>),
      DeepText(RecursionExceeded), LongIntegerText(DigitsExceeded),
      JList(<< >>), JList(<<JStr(KeyChars("error"))>>), JNum(5), JNull>>

\* The provider answered the request of fetch_weather, made by query_weather
InitServer ==
    /\ \/ \E d \in ServerDocs : provider = Some(ProviderOk(d))
       \/ \E i \in 1..Len(ProviderOutcomes) : provider = Some(ProviderOutcomes[i])
       \/ \E i \in 1..Len(OtherDocuments) : provider = Some(ProviderOk(OtherDocuments[i]))
    /\ pc = "Serving"
    /\ served = None
    /\ dialogue_memory = DialogueMemory
    /\ connected = TRUE
    /\ tools_available = TRUE
    /\ query = << >>
    /\ decision = None
    /\ route = None
    /\ weather_data = None
    /\ tool_result = None
    /\ context = None
    /\ translated = None
    /\ reply = None
    /\ calls = << >>
    /\ events = << >>
    /\ turns = 0

\* query_weather: format_weather(fetch_weather(city)) returns or raises
Serve ==
    /\ pc = "Serving"
    /\ pc' = "Served"
    /\ served' = Some(query_weather(provider.val))
    /\ UNCHANGED <<dialogue_memory, connected, tools_available, query, decision, route,
                   weather_data, tool_result, provider, context, reply, calls, events, turns, translated>>

SpecServer == InitServer /\ [][Serve]_vars

-----------------------------------------------------------------------------
(* The gazetteer alone: translate_city on a city name.                        *)

\* The characters of the names, and the names: of at most MaxName characters
NameChars == <<"U+5317", "U+4EAC", "U+5E02", "U+4E0A", "U+6D77", "U+6210">>

MaxName == 3

NativeNames ==
    UNION {[1..n -> {NameChars[i] : i \in 1..Len(NameChars)}] : n \in 0..MaxName}

InitGazetteer ==
    /\ query \in NativeNames
    /\ pc = "Naming"
    /\ dialogue_memory = DialogueMemory
    /\ connected = TRUE
    /\ tools_available = TRUE
    /\ decision = None
    /\ route = None
    /\ weather_data = None
    /\ tool_result = None
    /\ provider = None
    /\ served = None
    /\ context = None
    /\ translated = None
    /\ reply = None
    /\ calls = << >>
    /\ events = << >>
    /\ turns = 0

\* translate_city(query) of Weather.py, pypinyin being available or not; the
\* ImportError is caught in the function
TranslateCity(available) ==
    /\ pc = "Naming"
    /\ pc' = "Translated"
    /\ calls' = <<"Weather.translate_city">>
    /\ translated' = Some(translated_city(query, available).out)
    /\ events' = EventsAt(translated_city(query, available).events, "translate_city")
    /\ UNCHANGED <<dialogue_memory, connected, tools_available, query, decision, route,
                   weather_data, tool_result, provider, served, context, reply, turns>>

\* translate_city(query) of Ernie_Client.py
ClientTranslateCity ==
    /\ pc = "Naming"
    /\ pc' = "Translated"
    /\ calls' = <<"Ernie_Client.translate_city">>
    /\ translated' = Some(Client_translate_city(query))
    /\ UNCHANGED <<dialogue_memory, connected, tools_available, query, decision, route,
                   weather_data, tool_result, provider, served, context, reply, events, turns>>

NextGazetteer ==
    \/ \E available \in BOOLEAN : TranslateCity(available)
    \/ ClientTranslateCity

SpecGazetteer == InitGazetteer /\ [][NextGazetteer]_vars

-----------------------------------------------------------------------------
(* The loop of chat_loop: after connect_to_server, line after line from       *)
(* input() until one is quit.                                                 *)

SQuit == <<"q", "u", "i", "t">>

\* The lines input() gives
Lines ==
    <<UBeijingWeather,
      <<" ">> \o UHowWeather \o <<"\t">>,
      SQuit \o <<" ", "n", "o", "w">>,
      SQuit,
      <<"Q", "U", "I", "T">>,
      <<" ", " ", "Q", "u", "i", "t", " ">>,
      <<"U+00A0", "Q", "U", "I", "T", "U+3000">>>>

\* chat_loop after connect_to_server has returned, at its first input()
InitLoop ==
    /\ connected = TRUE
    /\ tools_available \in BOOLEAN
    /\ pc = "Idle"
    /\ dialogue_memory = DialogueMemory
    /\ query = << >>
    /\ decision = None
    /\ route = None
    /\ weather_data = None
    /\ tool_result = None
    /\ provider = None
    /\ served = None
    /\ context = None
    /\ translated = None
    /\ reply = None
    /\ calls = << >>
    /\ events = << >>
    /\ turns = 0

\* The same with the line compared as typed, case and all
InputLine_case_sensitive(line) ==
    /\ pc = "Idle"
    /\ IF Strip(line) = SQuit
       THEN /\ pc' = "Exited"
            /\ query' = Strip(line)
            /\ UNCHANGED <<dialogue_memory, connected, tools_available, decision, route,
                           weather_data, tool_result, provider, served, context, translated,
                           reply, calls, events, turns>>
       ELSE ProcessQuery(Strip(line))

\* chat_loop, lines 415-419: input() gives line; on quit the loop is left,
\* otherwise process_query is called with the stripped line
InputLine(line) ==
    /\ pc = "Idle"
    /\ IF Lower(Strip(line)) = SQuit
       THEN /\ pc' = "Exited"
            /\ query' = Strip(line)
            /\ UNCHANGED <<dialogue_memory, connected, tools_available, decision, route,
                           weather_data, tool_result, provider, served, context, translated,
                           reply, calls, events, turns>>
       ELSE ProcessQuery(Strip(line))

\* chat_loop, lines 422-423: input() raises (end of input), the handler of the
\* loop prints the error and the loop goes on
InputRaises ==
    /\ pc = "Idle"
    /\ events' = <<Event("EOFError", "chat_loop")>>
    /\ UNCHANGED <<dialogue_memory, connected, tools_available, pc, query, decision, route,
                   weather_data, tool_result, provider, served, context, translated, reply,
                   calls, turns>>

NextLoop ==
    \/ \E i \in 1..Len(Lines) : InputLine(Lines[i])
    \/ InputRaises
    \/ \E j \in 1..Len(ClassifyOutcomes) : ClassifyReturns(ClassifyOutcomes[j])
    \/ \E k \in 1..Len(TransportOutcomes) : ToolReturns(TransportOutcomes[k])
    \/ \E l \in 1..Len(DirectOutcomes) : DirectReturns(DirectOutcomes[l])

SpecLoop == InitLoop /\ [][NextLoop]_vars

-----------------------------------------------------------------------------
(* The session with every external call answered: the classification call,   *)
(* the tool call and the direct answer call each return or raise in the end.  *)
(* At most one of them is awaited at a time.  Nothing makes the user type a   *)
(* line.                                                                      *)

\* The awaited call returns or raises
CallReturns ==
    \/ \E j \in 1..Len(ClassifyOutcomes) : ClassifyReturns(ClassifyOutcomes[j])
    \/ \E k \in 1..Len(TransportOutcomes) : ToolReturns(TransportOutcomes[k])
    \/ \E n \in 1..Len(ProviderOutcomes) : ServerReturns(ProviderOutcomes[n])
    \/ \E l \in 1..Len(DirectOutcomes) : DirectReturns(DirectOutcomes[l])

SpecAnswered == Init /\ [][Next]_vars /\ WF_vars(CallReturns)

-----------------------------------------------------------------------------
(* Properties of the dialogue memory.                                         *)

\* The last n elements of s, all of s when it has fewer
LastN(s, n) == IF Len(s) <= n THEN s ELSE SubSeq(s, Len(s) - n + 1, Len(s))

\* C1: in every reachable state the dialogue memory holds at most 5 turns.
C1_AtMostFiveTurns == Len(dialogue_memory.history) <= 5

\* More than 5 turns have been recorded, and 5 are held
C1_Witness ==
    /\ Len(dialogue_memory.recorded) > 5
    /\ Len(dialogue_memory.history) = 5

\* C2: after n add_message calls on an empty memory the stored turns are exactly
\* the last min(n, 5) recorded turns, in recording order, roles and texts
\* unchanged: eviction removes the oldest stored turn first.
C2_NewestFiveKept == dialogue_memory.history = LastN(dialogue_memory.recorded, 5)

\* Seven turns recorded, the two oldest evicted, the oldest kept differing from
\* the oldest recorded
C2_Witness ==
    /\ Len(dialogue_memory.recorded) = 7
    /\ Len(dialogue_memory.history) = 5
    /\ dialogue_memory.history[1] = dialogue_memory.recorded[3]
    /\ dialogue_memory.history[1] # dialogue_memory.recorded[1]

-----------------------------------------------------------------------------
(* Properties of a turn.                                                      *)

\* A turn is over: process_query has returned
TurnOver == pc = "Idle" /\ turns > 0

\* The step starts a turn / ends one
StartsTurn == turns' = turns + 1

EndsTurn == pc' = "Idle" /\ (pc # "Idle" \/ turns' # turns)

\* What a step of a turn must give to add_message
TurnRecords ==
    (IF StartsTurn THEN <<Message("user", query')>> ELSE << >>)
    \o (IF EndsTurn THEN <<Message("assistant", reply'.val)>> ELSE << >>)

C3_Step ==
    /\ EndsTurn => reply' # None
    /\ dialogue_memory'.recorded = dialogue_memory.recorded \o TurnRecords
    /\ dialogue_memory'.history = LastN(dialogue_memory.history \o TurnRecords, 5)
    /\ (EndsTurn /\ turns' = 1) =>
           dialogue_memory'.history =
               <<Message("user", query'), Message("assistant", reply'.val)>>

\* C3: every process_query call gives the memory exactly one user turn holding
\* the utterance and then exactly one assistant turn holding the reply it
\* returns, on every path; from an empty memory one turn leaves exactly
\* [user, assistant].
C3_OneUserOneAssistant == [][C3_Step]_vars

\* A third turn ended in the handler of process_query, its two turns the
\* newest of a full memory
C3_Witness ==
    /\ TurnOver
    /\ turns = 3
    /\ reply = Some(error_response)
    /\ Len(dialogue_memory.history) = 5
    /\ dialogue_memory.history[4] = Message("user", query)
    /\ dialogue_memory.history[5] = Message("assistant", error_response)

\* The failures that are exceptions raised in the client: not the tool being
\* unavailable, nor an empty or error result, nor what the server met
IsException(e) ==
    /\ e.kind \notin {"ToolUnavailable", "EmptyResult", "ErrorResult"}
    /\ e.at # "fetch_weather"

\* The last turn of the memory is the assistant turn with this text
RecordedReply(text) ==
    /\ Len(dialogue_memory.history) > 0
    /\ dialogue_memory.history[Len(dialogue_memory.history)] = Message("assistant", text)

\* C4 as stated: if any exception is raised during routing, tool invocation or
\* reply composition of a turn, process_query returns the fixed generic apology
\* and records it.
C4_AnyExceptionApology ==
    (TurnOver /\ \E k \in 1..Len(events) : IsException(events[k])) =>
        (reply = Some(error_response) /\ RecordedReply(error_response))

\* C4, amended: process_query always returns; when an exception reaches its own
\* handler (none of should_call_tool, call_weather_tool, get_weather_suitability
\* and get_local_model_response caught it) it returns the fixed generic apology
\* and records it as the assistant turn.
C4_HandlerApology ==
    TurnOver =>
        /\ reply # None
        /\ (\E k \in 1..Len(events) : events[k].at = "process_query") =>
               (reply = Some(error_response) /\ RecordedReply(error_response))

\* A turn in which building the report raised KeyError
C4_Witness ==
    /\ TurnOver
    /\ \E k \in 1..Len(events) : events[k] = Event("KeyError", "process_query")
    /\ reply = Some(error_response)

\* The calls of a turn hold no completion call after the routing
NoCompletionAfterRouting ==
    \A k \in 1..Len(calls) :
        /\ calls[k] # "direct_answer"
        /\ calls[k] = "classify" => k = 1

\* C5: when the router decides on a tool call for city c and the tool invoker
\* yields no data (tool unavailable, transport failure, empty result, JSON error
\* object), the reply is the fixed fallback sentence containing c, it is recorded
\* as the assistant turn, and no completion call follows in the turn.
C5_FallbackNamesCity ==
    (TurnOver /\ route # None /\ WantsTool(route.val) /\ weather_data = PyNone) =>
        /\ reply = Some(FallbackTemplate[1] \o route.val[2].val \o FallbackTemplate[2])
        /\ RecordedReply(reply.val)
        /\ NoCompletionAfterRouting

\* The tool answered with a JSON error object, for a city the classification named
C5_Witness ==
    /\ TurnOver
    /\ route = Some(<<TRUE, Some(<<"S", "h", "a", "n", "g", "h", "a", "i">>)>>)
    /\ weather_data = PyNone
    /\ events = <<Event("ErrorResult", "call_weather_tool")>>
    /\ calls = <<"classify", "call_tool">>

\* The turn failed: the provider, the tool call, the direct answer call or the
\* composition failed (a plain text result is no failure, and a failed
\* classification or suitability judgment is made up for inside the turn)
TurnFailed ==
    \E k \in 1..Len(events) :
        \/ events[k].at \in {"fetch_weather", "get_local_model_response", "process_query"}
        \/ events[k].at = "call_weather_tool" /\ events[k].kind # "JSONDecodeError"

\* The fixed apologies of the client
IsApology(text) ==
    \/ text = error_response
    \/ text = LocalModelApology
    \/ /\ StartsWith(text, FallbackTemplate[1])
       /\ StartsAt(text, Len(text) - Len(FallbackTemplate[2]) + 1, FallbackTemplate[2])

\* C6: for every failure of a turn the reply shown is a fixed natural-language
\* apology, never a raw error code or exception text.
C6_FailuresGetApology ==
    (TurnOver /\ TurnFailed) =>
        /\ IsApology(reply.val)
        /\ ~Contains(reply.val, HttpErrorHead)
        /\ ~Contains(reply.val, RequestFailedHead)

\* C9: when the classification call raises, should_call_tool returns
\* (false, null) and the weather tool is not invoked in that turn.
C9_FailClosed ==
    decision = Some(Raises) =>
        /\ route = Some(<<FALSE, None>>)
        /\ \A k \in 1..Len(calls) : calls[k] # "call_tool"
        /\ weather_data = None

\* The classification raised on an utterance that names a city, and the turn
\* ended with the direct answer
C9_Witness ==
    /\ TurnOver
    /\ decision = Some(Raises)
    /\ query = UGoOutBeijing
    /\ extract_city(query) # None
    /\ calls = <<"classify", "direct_answer">>

-----------------------------------------------------------------------------
(* Properties of the router.                                                  *)

\* should_call_tool has returned
Routed == pc = "Routed" /\ route # None

\* The text is a city name of the gazetteer, letter case apart
IsGazetteerCity(text) ==
    \E k \in 1..Len(CityAlternation.names) : Lower(text) = CityAlternation.names[k]

\* The utterance contains a city name of the gazetteer, letter case apart
HasGazetteerCity(q) ==
    \E k \in 1..Len(CityAlternation.names) : Contains(Lower(q), CityAlternation.names[k])

\* C7: for every utterance that contains a weather keyword and a city name of
\* the gazetteer, should_call_tool returns (true, city), where city is the
\* gazetteer city name that occurs in the utterance.
C7_GazetteerCityReturned ==
    (Routed /\ is_weather_query(query) /\ HasGazetteerCity(query)) =>
        /\ route.val[1]
        /\ route.val[2] # None
        /\ IsGazetteerCity(route.val[2].val)
        /\ Contains(query, route.val[2].val)

\* C8: when an utterance contains a weather keyword and the location extraction
\* finds no location, the router does not return before it has made the
\* classification call.
C8_FallsThroughToClassification ==
    (Routed /\ is_weather_query(query) /\ extract_city(query) = None) =>
        (calls = <<"classify">> /\ decision # None)

\* C10: for every utterance with no weather keyword and no location match, if
\* the classification reply contains a negative marker then should_call_tool
\* returns (false, null): with no keyword and such a reply, the router denies
\* unless the utterance has a location match.
C10_NegativeMarkerDenies ==
    (/\ Routed
     /\ ~is_weather_query(query)
     /\ decision # None
     /\ decision.val # Raises
     /\ \E k \in 1..Len(NegativeMarkers) : Contains(Lower(decision.val.text), NegativeMarkers[k]))
        => (route.val = <<FALSE, None>> \/ extract_city(query) # None)

\* "hello " was answered "yes city: Hanoi", which holds the marker "no" and a
\* labeled city, and the router denied
C10_Witness ==
    /\ Routed
    /\ query = Fragments[5]
    /\ extract_city(query) = None
    /\ decision = Some(Content(DYesHanoi))
    /\ route = Some(<<FALSE, None>>)

-----------------------------------------------------------------------------
(* Properties of the tool invoker.                                            *)

\* call_weather_tool has returned on an answer of session.call_tool, and the
\* turn is over
ToolTurnOver == pc = "Idle" /\ tool_result # None /\ weather_data # None

\* The answer of session.call_tool is a text that parses as a JSON object
IsObjectText(r) == r.tag = "Text" /\ r.text.json /\ r.text.val.t = "dict"

\* The same, for a text that is no JSON
IsPlainText(r) == r.tag = "Text" /\ ~r.text.json /\ "exc" \notin DOMAIN r.text

\* The same, for a JSON text beyond a limit of json.loads: nested too deep, or
\* holding an integer of too many digits
IsOverLimitText(r) == r.tag = "Text" /\ "exc" \in DOMAIN r.text

\* C11 as stated: no result or empty content gives Error; a text that parses as
\* structured data with an error marker gives Error; a text that parses as
\* structured data without an error marker gives Structured with those fields; a
\* text that does not parse gives PreformattedText holding the raw text.
C11_OneOutcomePerResponse ==
    ToolTurnOver =>
        /\ tool_result.val.tag = "Empty" => weather_data = PyNone
        /\ IsPlainText(tool_result.val) =>
               weather_data = Value(Preformatted(tool_result.val.text.chars))
        /\ IsOverLimitText(tool_result.val) =>
               (weather_data.tag = "Value" /\ "formatted_text" \in DOMAIN weather_data.val.v)
        /\ IsObjectText(tool_result.val) =>
               IF "error" \in DOMAIN tool_result.val.text.val.v
               THEN weather_data = PyNone
               ELSE weather_data = Value(tool_result.val.text.val)

\* C11, amended: as stated, except that a text that parses as the empty object
\* gives Error, that only a non-empty object without an error marker gives
\* Structured with those fields, and that of the texts that do not parse only
\* those that are no JSON give PreformattedText: a JSON text nested too deep
\* for the parser, or holding an integer of more digits than the parser
\* converts, gives Error, and so does content whose first item has no text.
C11_OneOutcomePerNonEmptyResponse ==
    ToolTurnOver =>
        /\ tool_result.val.tag = "Empty" => weather_data = PyNone
        /\ IsPlainText(tool_result.val) =>
               weather_data = Value(Preformatted(tool_result.val.text.chars))
        /\ IsOverLimitText(tool_result.val) => weather_data = PyNone
        /\ tool_result.val.tag = "Other" => weather_data = PyNone
        /\ IsObjectText(tool_result.val) =>
               IF \/ "error" \in DOMAIN tool_result.val.text.val.v
                  \/ DOMAIN tool_result.val.text.val.v = {}
               THEN weather_data = PyNone
               ELSE weather_data = Value(tool_result.val.text.val)

\* The tool answered with the empty object, and the invoker gave no data
C11_Witness ==
    /\ ToolTurnOver
    /\ IsObjectText(tool_result.val)
    /\ DOMAIN tool_result.val.text.val.v = {}
    /\ weather_data = PyNone
    /\ reply = Some(fallback_response(SBeijing))

\* An exception was raised and caught in call_weather_tool
CaughtInInvoker(kinds) ==
    \E k \in 1..Len(events) : events[k].at = "call_weather_tool" /\ events[k].kind \in kinds

\* C12 as stated: call_weather_tool never raises to its caller; every exception
\* from city normalization, the transport call or response parsing is turned
\* into the Error outcome.
C12_EveryExceptionIsError ==
    (ToolTurnOver /\ CaughtInInvoker({"TransportError", "AttributeError", "TypeError",
                                      "RecursionError", "ValueError", "JSONDecodeError"}))
        => weather_data = PyNone

\* C12, amended: call_weather_tool never raises to its caller; every exception
\* from city normalization, the transport call or the reading of the parsed
\* response, and the RecursionError or ValueError of the parser on a JSON text
\* beyond its limits, is turned into the Error outcome, and the turn ends with
\* the fallback
\* sentence; the JSONDecodeError of a text that is no JSON is turned into the
\* PreformattedText outcome instead.
C12_ExceptionsAreErrorOrPreformatted ==
    ToolTurnOver =>
        /\ \A k \in 1..Len(events) :
               events[k].at = "process_query" => weather_data # PyNone
        /\ CaughtInInvoker({"TransportError", "AttributeError", "TypeError",
                            "RecursionError", "ValueError"}) =>
               (weather_data = PyNone /\ reply = Some(fallback_response(route.val[2].val)))
        /\ CaughtInInvoker({"JSONDecodeError"}) =>
               (IsPlainText(tool_result.val)
                /\ weather_data = Value(Preformatted(tool_result.val.text.chars)))

\* The tool answered the JSON text 5, the test for the error marker raised
\* TypeError, and the invoker gave no data
C12_Witness ==
    /\ ToolTurnOver
    /\ tool_result.val.tag = "Text"
    /\ tool_result.val.text.json
    /\ tool_result.val.text.val.t = "num"
    /\ events = <<Event("TypeError", "call_weather_tool")>>
    /\ weather_data = PyNone

-----------------------------------------------------------------------------
(* Properties of the composers.                                               *)

\* The parsed answer of the tool: a non-empty object without an error marker
ParsedPayload ==
    /\ ToolTurnOver
    /\ IsObjectText(tool_result.val)
    /\ DOMAIN tool_result.val.text.val.v # {}
    /\ "error" \notin DOMAIN tool_result.val.text.val.v

\* The object has the entry key, itself an object with the entry inner
HasNested(d, key, inner) ==
    /\ key \in DOMAIN d.v
    /\ d.v[key].t = "dict"
    /\ inner \in DOMAIN d.v[key].v

\* The object has a weather list whose first item has a description
HasDescription(d) ==
    /\ "weather" \in DOMAIN d.v
    /\ d.v["weather"].t = "list"
    /\ Len(d.v["weather"].v) > 0
    /\ "description" \in DOMAIN d.v["weather"].v[1].v

\* The payload carries the fields the composers read
HasComposerFields(d) ==
    /\ HasNested(d, "main", "temp")
    /\ HasNested(d, "main", "humidity")
    /\ HasNested(d, "wind", "speed")
    /\ HasDescription(d)

\* C13: a payload the invoker returns as Structured carries every field the
\* composer reads; a parsed payload that lacks one is rejected by the invoker
\* as Error, so that the turn ends with the fallback sentence and the composer
\* never fails on a missing field.
C13_IncompletePayloadRejected ==
    ParsedPayload =>
        IF HasComposerFields(tool_result.val.text.val)
        THEN weather_data = Value(tool_result.val.text.val)
        ELSE /\ weather_data = PyNone
             /\ reply = Some(fallback_response(route.val[2].val))
             /\ events = << >>

\* A field of the document as format_weather is to render it
Rendered(d, key, inner, placeholder) ==
    IF HasNested(d, key, inner) THEN PyStr(d.v[key].v[inner]) ELSE placeholder

\* The report of format_weather with a placeholder for every missing field
ReportWithPlaceholders(d) ==
    Fill(ServerTemplate,
         <<IF "name" \in DOMAIN d.v THEN PyStr(d.v["name"]) ELSE Unknown,
           Rendered(d, "sys", "country", Unknown),
           Rendered(d, "main", "temp", NotAvailable),
           Rendered(d, "main", "humidity", NotAvailable),
           Rendered(d, "wind", "speed", NotAvailable),
           IF HasDescription(d) THEN PyStr(d.v["weather"].v[1].v["description"])
           ELSE Unknown>>)

\* C14: rendering the readable report from a structured payload never fails
\* when a field is missing or empty (absent main, wind or weather entries, an
\* empty weather list): each missing field is rendered as a placeholder.
C14_ReportNeverFails ==
    (/\ pc = "Served"
     /\ provider.val.tag = "Ok"
     /\ "t" \in DOMAIN provider.val.val
     /\ provider.val.val.t = "dict") =>
        served = Some(Ok(ReportWithPlaceholders(provider.val.val)))

\* The turn asked for a recommendation on a payload with every field, and the
\* payload is what get_weather_suitability was given
SuitabilityTurn ==
    /\ ParsedPayload
    /\ query = UGoOutBeijing
    /\ HasComposerFields(tool_result.val.text.val)
    /\ weather_data = Value(tool_result.val.text.val)

\* The fields of that payload
TempOf == tool_result.val.text.val.v["main"].v["temp"].v

WindOf == tool_result.val.text.val.v["wind"].v["speed"].v

DescOf == tool_result.val.text.val.v["weather"].v[1].v["description"].v

HasAirQuality == "air_quality" \in DOMAIN tool_result.val.text.val.v

AqiOf == tool_result.val.text.val.v["air_quality"].v["aqi"].v

\* The text ends with this
EndsWith(text, tail) ==
    Len(text) >= Len(tail) /\ StartsAt(text, Len(text) - Len(tail) + 1, tail)

\* The closing sentence for a suitability that is not "suitable" and its reasons
AdverseSentence(level, reasons) ==
    Fill(VerdictTemplate, <<Join(ReasonSep, reasons), SuitabilityLevels[level]>>)

\* The rule groups that fire on the payload
PrecipitationFires ==
    \E k \in 1..Len(bad_weather_keywords) : Contains(Lower(DescOf), bad_weather_keywords[k])

WindFires == WindOf > 10

AirQualityFires == HasAirQuality /\ AqiOf > 150

TemperatureFires == TempOf > 30 \/ TempOf < 5

\* C15: with temperature above 35 the verdict is "not suitable" with the reason
\* "extremely high temperature", with temperature below -5 it is "not suitable"
\* with the reason "extremely low temperature" (here with no other rule firing).
C15_ExtremeTemperatureUnsuitable ==
    (SuitabilityTurn /\ ~PrecipitationFires /\ ~WindFires /\ ~AirQualityFires) =>
        /\ TempOf > 35 => EndsWith(reply.val, AdverseSentence(3, <<Reasons[2]>>))
        /\ TempOf < -5 => EndsWith(reply.val, AdverseSentence(3, <<Reasons[4]>>))

\* C16: with wind speed above 15 the verdict is "not suitable" with the reason
\* "very strong wind"; with wind speed above 10 and at most 15 it is at least
\* "not very suitable" with the reason "strong wind" (here with no temperature,
\* precipitation or air quality rule firing).
C16_VeryStrongWindUnsuitable ==
    (SuitabilityTurn /\ ~TemperatureFires /\ ~PrecipitationFires /\ ~AirQualityFires) =>
        /\ WindOf > 15 => EndsWith(reply.val, AdverseSentence(3, <<Reasons[7]>>))
        /\ (WindOf > 10 /\ WindOf <= 15) =>
               \E level \in {2, 3} : EndsWith(reply.val, AdverseSentence(level, <<Reasons[6]>>))

\* The reasons of each rule group, as places in Reasons: temperature,
\* precipitation, wind, air quality
GroupReasons == <<{1, 2, 3, 4}, {5}, {6, 7}, {8, 9}>>

GroupFires == <<TemperatureFires, PrecipitationFires, WindFires, AirQualityFires>>

\* The reasons a group may give: one of its own when it fires, none (0) otherwise
GroupChoices(g) == IF GroupFires[g] THEN GroupReasons[g] ELSE {0}

\* The reasons picked, one per group (0: none), in the order of the groups
PickedReasons(pick) ==
    LET at(g) == IF pick[g] = 0 THEN << >> ELSE <<Reasons[pick[g]]>>
    IN  at(1) \o at(2) \o at(3) \o at(4)

\* C17: the verdict sentence lists exactly one reason per rule group that fired
\* (temperature, precipitation, wind, air quality), in that order, and the
\* verdict is "suitable" with the encouraging sentence exactly when no rule
\* fired; temperature in (30, 35] with nothing else firing gives "not very
\* suitable" with the single reason "high temperature".
C17_OneReasonPerGroup ==
    SuitabilityTurn =>
        /\ EndsWith(reply.val, SuitableSentence) <=> (\A g \in 1..4 : ~GroupFires[g])
        /\ (\E g \in 1..4 : GroupFires[g]) =>
               \E p1 \in GroupChoices(1), p2 \in GroupChoices(2), p3 \in GroupChoices(3),
                  p4 \in GroupChoices(4), level \in {2, 3} :
                   EndsWith(reply.val, AdverseSentence(level, PickedReasons(<<p1, p2, p3, p4>>)))
        /\ (TempOf > 30 /\ TempOf <= 35 /\ ~PrecipitationFires /\ ~WindFires /\ ~AirQualityFires)
               => EndsWith(reply.val, AdverseSentence(2, <<Reasons[1]>>))

\* A turn in which the temperature, the precipitation, the wind and the air
\* quality rules all fired
C17_Witness ==
    /\ SuitabilityTurn
    /\ \A g \in 1..4 : GroupFires[g]
    /\ EndsWith(reply.val, AdverseSentence(2, <<Reasons[1], Reasons[5], Reasons[6], Reasons[8]>>))

-----------------------------------------------------------------------------
(* Properties of the rendering of the dialogue memory.                        *)

\* The indices of the user turns of h, oldest first
UserTurns(h) == SelectSeq([k \in 1..Len(h) |-> k], LAMBDA k : h[k].role = "user")

\* The lines of the pair of the user turn at k: the turn, and the assistant turn
\* right after it when there is one
PairLines(h, k) ==
    <<UserLabel \o h[k].content>>
    \o
    (IF k + 1 <= Len(h) /\ h[k + 1].role = "assistant"
     THEN <<AssistantLabel \o h[k + 1].content>> ELSE << >>)

RECURSIVE PairsLines(_, _)
PairsLines(h, ks) ==
    IF Len(ks) = 0 THEN << >> ELSE PairLines(h, ks[1]) \o PairsLines(h, Tail(ks))

\* The newest 3 pairs of h, the oldest of them first, as blocks "Role: text"
PairsRendered(h) == Join(<<"\n", "\n">>, PairsLines(h, LastN(UserTurns(h), 3)))

\* The turns of h are exchanges: a user turn first, the roles alternating
Exchanges(h) ==
    \A k \in 1..Len(h) : h[k].role = (IF k % 2 = 1 THEN "user" ELSE "assistant")

\* C18: get_recent_context pairs each stored user turn with the assistant turn
\* that immediately follows it in storage order, takes up to 3 such pairs
\* starting from the newest, and renders them oldest pair first; a memory
\* holding [user, assistant] renders both of its turns.
C18_RendersPairs ==
    (context # None /\ Exchanges(dialogue_memory.history)) =>
        context.val = PairsRendered(dialogue_memory.history)

\* C19: get_recent_context returns the empty string on an empty memory (also
\* after clear), and on a memory holding one user turn and no assistant turn
\* exactly the line of that turn.
C19_EmptyAndSingleUser ==
    context # None =>
        /\ Len(dialogue_memory.history) = 0 => context.val = << >>
        /\ (Len(dialogue_memory.history) = 1 /\ dialogue_memory.history[1].role = "user") =>
               context.val = UserLabel \o dialogue_memory.history[1].content

\* The memory holds one user turn, and its rendering is the line of that turn
C19_Witness ==
    /\ dialogue_memory.history = <<Message("user", TextA)>>
    /\ context = Some(<<"U", "s", "e", "r", ":", " ", "a">>)

-----------------------------------------------------------------------------
(* Properties of the gazetteer.                                               *)

\* translate_city has returned
Translated == pc = "Translated" /\ translated # None

\* The mapping the function called works on
MappingUsed ==
    IF calls = <<"Ernie_Client.translate_city">> THEN Client_CITY_MAP ELSE CITY_MAP

\* The entries of map whose native name is name / is within name
KeysEqual(map, name) == {k \in 1..Len(map) : map[k].cn = name}

KeysWithin(map, name) == {k \in 1..Len(map) : Contains(name, map[k].cn)}

\* No transliteration was to be had: the import failed, or the function has none
NoTransliteration ==
    \/ calls = <<"Ernie_Client.translate_city">>
    \/ \E k \in 1..Len(events) : events[k].kind = "ImportError"

\* C20: translate_city applies its steps in order, first match wins: a name that
\* is a key of the mapping returns its mapped form; otherwise a name that starts
\* with or contains a key returns that key's mapped form; otherwise the result
\* is the capitalized transliteration, or the name unchanged when there is no
\* transliteration; a name that is not empty never gives an empty result.
C20_NormalizeSteps ==
    Translated =>
        LET map == MappingUsed
        IN  /\ IF KeysEqual(map, query) # {}
               THEN \E k \in KeysEqual(map, query) : translated.val = map[k].en
               ELSE IF KeysWithin(map, query) # {}
               THEN \E k \in KeysWithin(map, query) : translated.val = map[k].en
               ELSE IF NoTransliteration
               THEN translated.val = query
               ELSE translated.val = Capitalize(Join(<< >>, lazy_pinyin(query)))
            /\ Len(query) > 0 => Len(translated.val) > 0

-----------------------------------------------------------------------------
(* Properties of the external calls of a turn.                                *)

\* How many of the calls of the turn are of this kind
CallsOf(kind) == Cardinality({k \in 1..Len(calls) : calls[k] = kind})

\* C21: in any single turn at most two external calls are made: at most one
\* classification call, and it comes first, then either one direct answer call
\* or one tool invocation, never both; no call is made a second time.
C21_AtMostTwoCalls ==
    /\ Len(calls) <= 2
    /\ CallsOf("classify") <= 1
    /\ CallsOf("direct_answer") + CallsOf("call_tool") <= 1
    /\ \A k \in 1..Len(calls) : calls[k] = "classify" => k = 1

\* A turn of two calls is over: the classification, then the tool invocation
C21_Witness ==
    /\ TurnOver
    /\ calls = <<"classify", "call_tool">>
    /\ decision # None
    /\ tool_result # None

\* A tool invocation was made in the turn
ToolInvoked == \E k \in 1..Len(calls) : calls[k] = "call_tool"

\* C22: call_tool is issued only after initialize and list_tools have completed
\* and only if a tool named query_weather was listed; in every other state
\* call_weather_tool makes no transport call and yields no data.
C22_CallToolOnlyWhenListed ==
    /\ (pc = "ToolCall" \/ ToolInvoked \/ tool_result # None) =>
           (connected /\ tools_available)
    /\ (TurnOver /\ WantsTool(route.val) /\ ~tools_available) =>
           /\ ~ToolInvoked
           /\ tool_result = None
           /\ weather_data = PyNone
           /\ events = <<Event("ToolUnavailable", "call_weather_tool")>>

\* Connected without the tool being listed, a turn routed to the tool is over
C22_Witness ==
    /\ TurnOver
    /\ connected
    /\ ~tools_available
    /\ route = Some(<<TRUE, Some(SBeijing)>>)
    /\ weather_data = PyNone
    /\ calls = << >>

-----------------------------------------------------------------------------
(* Properties of the loop of chat_loop.                                       *)

\* The step reads a line: it leaves the wait at input() otherwise than by the
\* failure of input()
LineRead ==
    /\ pc = "Idle"
    /\ <<pc, query, turns, dialogue_memory>>' # <<pc, query, turns, dialogue_memory>>

C23_Step ==
    /\ pc' = "Exited" => (LineRead /\ Lower(query') = SQuit)
    /\ (LineRead /\ Lower(query') = SQuit) =>
           /\ pc' = "Exited"
           /\ turns' = turns
           /\ dialogue_memory' = dialogue_memory
    /\ (LineRead /\ Lower(query') # SQuit) =>
           /\ turns' = turns + 1
           /\ Len(dialogue_memory'.recorded) > Len(dialogue_memory.recorded)
           /\ dialogue_memory'.recorded[Len(dialogue_memory.recorded) + 1] =
                  Message("user", query')
    /\ ~LineRead => turns' = turns
    /\ pc = "Exited" => pc' = "Exited"

\* C23: the loop ends only when the stripped line equals quit without regard
\* to case; every other line is passed to process_query exactly once; an
\* exception raised while a line is handled does not end the loop, which goes
\* on to accept the next line.
C23_LoopEndsOnQuitOnly == [][C23_Step]_vars

\* The first line raised in process_query, the second was handled, the third
\* line, Quit between blanks, ended the loop
C23_Witness ==
    /\ pc = "Exited"
    /\ query = <<"Q", "u", "i", "t">>
    /\ turns = 2
    /\ Len(dialogue_memory.recorded) = 4
    /\ dialogue_memory.recorded[2] = Message("assistant", error_response)

-----------------------------------------------------------------------------
(* Properties of the choice of the composer.                                  *)

\* C24: on a successful tool result a PreformattedText result is returned as
\* it is, with or without a suitability cue in the utterance; a Structured
\* result gives the suitability verdict when the utterance has the cue
\* ("go out", "outdoor") and the plain report otherwise.
C24_ComposerChoice ==
    (ToolTurnOver /\ weather_data.tag = "Value") =>
        /\ IsPlainText(tool_result.val) => reply = Some(tool_result.val.text.chars)
        /\ ParsedPayload =>
               LET chosen(made) == made.tag = "Ok" /\ reply = Some(PyStr(made.val))
               IN  IF IsSuitabilityQuery(query)
                   THEN chosen(get_weather_suitability(weather_data.val))
                   ELSE chosen(weather_report(weather_data.val, route.val[2].val))

-----------------------------------------------------------------------------
(* Properties of the tool invoker and the memory.                             *)

\* call_weather_tool returns in the step
ToolInvokerReturns == weather_data' # None /\ weather_data' # weather_data

C25_Step ==
    /\ ToolInvokerReturns =>
           /\ EndsTurn
           /\ dialogue_memory'.recorded = dialogue_memory.recorded \o TurnRecords
    /\ dialogue_memory' # dialogue_memory => (StartsTurn \/ EndsTurn)

\* C25: call_weather_tool leaves the dialogue memory unchanged for every
\* outcome (Structured, PreformattedText, Error, caught exception): the step in
\* which it returns records the turns process_query records and no other; the
\* memory changes only where process_query appends.
C25_InvokerLeavesMemory == [][C25_Step]_vars

\* The tool call raised in the second turn, and the memory holds the two turns
\* of each turn
C25_Witness ==
    /\ TurnOver
    /\ turns = 2
    /\ tool_result = Some(ToolRaises)
    /\ weather_data = PyNone
    /\ Len(dialogue_memory.recorded) = 4

-----------------------------------------------------------------------------
(* Properties of the reading of the classification reply.                     *)

\* The classification call returned a reply, and should_call_tool has returned
ReplyRead == Routed /\ decision # None /\ decision.val # Raises

\* C26: the classification reply is read in a fixed order: a reply that
\* contains a negative marker gives (false, null), even when it also names a
\* city with the labeled pattern; a reply with no negative marker and a labeled
\* city X gives (true, X); a reply with neither gives the result of the
\* location extraction on the utterance.
C26_ReplyReadInOrder ==
    ReplyRead =>
        LET d == Strip(decision.val.text)
        IN  IF \E k \in 1..Len(NegativeMarkers) : Contains(Lower(d), NegativeMarkers[k])
            THEN route = Some(<<FALSE, None>>)
            ELSE IF LabeledCity(d) # None
            THEN route = Some(<<TRUE, LabeledCity(d)>>)
            ELSE route = Some(<<extract_city(query) # None, extract_city(query)>>)

\* "hello Beijing" was answered "yes city: Shanghai": the labeled city of the
\* reply is returned, not the city of the utterance
C26_Witness ==
    /\ ReplyRead
    /\ query = Fragments[5] \o Fragments[2]
    /\ extract_city(query) = Some(SBeijing)
    /\ decision = Some(Content(DYesShanghai))
    /\ route = Some(<<TRUE, Some(<<"S", "h", "a", "n", "g", "h", "a", "i">>)>>)

-----------------------------------------------------------------------------
(* Properties of the course of a turn.                                        *)

\* process_query is under way: it awaits the classification, the tool or the
\* direct answer
InTurn == pc \in {"Routing", "ToolCall", "DirectAnswer"}

\* C27: every turn that starts completes, provided each external call returns
\* or fails in the end: process_query returns one reply, none before its
\* return, and the orchestrator is Idle again; no turn stays in Routing,
\* ToolCall or DirectAnswer, and composing is part of the step that returns.
C27_TurnCompletes ==
    /\ [](InTurn => reply = None)
    /\ InTurn ~> (pc = "Idle" /\ reply # None)

\* A turn went through the classification and the tool call and is over, with
\* its reply
C27_Witness ==
    /\ pc = "Idle"
    /\ turns = 3
    /\ calls = <<"classify", "call_tool">>
    /\ reply # None
    /\ RecordedReply(reply.val)

-----------------------------------------------------------------------------
(* Properties of the memory within a session.                                 *)

\* The roles of the stored turns alternate
Alternates(h) == \A k \in 1..(Len(h) - 1) : h[k].role # h[k + 1].role

\* The stored turns, each rendered once, in storage order
AllTurnsRendered(h) ==
    Join(<<"\n", "\n">>,
         [k \in 1..Len(h) |->
             (IF h[k].role = "user" THEN UserLabel ELSE AssistantLabel) \o h[k].content])

\* The step renders the context
RendersContext == context' # None /\ context' # context

C28_Step ==
    RendersContext =>
        /\ Len(dialogue_memory'.history) > 0
        /\ dialogue_memory'.history[Len(dialogue_memory'.history)] = Message("user", query')
        /\ context' = Some(AllTurnsRendered(dialogue_memory'.history))

\* C28: under sequential turns from an empty memory the stored turns strictly
\* alternate between user and assistant in every reachable state; wherever the
\* context is rendered inside a turn (classification prompt, direct answer
\* prompt) the newest stored turn is the current user utterance, and the
\* rendered context lists every stored turn exactly once, in storage order.
C28_AlternatingAndAllRendered ==
    /\ [](Alternates(dialogue_memory.history))
    /\ [][C28_Step]_vars

\* In the third turn the direct answer prompt was built from a memory of five
\* turns, all of them rendered
C28_Witness ==
    /\ pc = "DirectAnswer"
    /\ turns = 3
    /\ Len(dialogue_memory.history) = 5
    /\ dialogue_memory.history[5] = Message("user", query)
    /\ context = Some(AllTurnsRendered(dialogue_memory.history))

=============================================================================
